---- MODULE Spec2Model ----
(***************************************************************************)
(* Model of the multi-vault manager (MultiVaultManager): the registry of   *)
(* vaults, the note parser (title, front-matter, tags), the cross-vault    *)
(* search and the cross-vault index.                                       *)
(*                                                                         *)
(* Text is modelled as a sequence of one-character strings, so that the    *)
(* regular expressions of the parser, toLowerCase and includes can be      *)
(* computed character by character.                                        *)
(***************************************************************************)
EXTENDS Integers, Sequences, FiniteSets, TLC

VARIABLES env, externalVaults, fs, out

vars == <<env, externalVaults, fs, out>>

-----------------------------------------------------------------------------
(* Characters and strings                                                  *)

LowerSeq == <<"a","b","c","d","e","f","g","h","i","j","k","l","m",
              "n","o","p","q","r","s","t","u","v","w","x","y","z">>
UpperSeq == <<"A","B","C","D","E","F","G","H","I","J","K","L","M",
              "N","O","P","Q","R","S","T","U","V","W","X","Y","Z">>

Range(s) == {s[i] : i \in DOMAIN s}

Lower == Range(LowerSeq)
Upper == Range(UpperSeq)
Digit == {"0","1","2","3","4","5","6","7","8","9"}

\* JavaScript's \s within the modelled alphabet, and its line terminators
WhiteSpace == {" ", "\n", "\t"}
LineTerminator == {"\n"}

\* \w
WordChar == Lower \cup Upper \cup Digit \cup {"_"}

\* the class [a-zA-Z0-9_\-\s] of the inline tag expression
TagChar == Lower \cup Upper \cup Digit \cup {"_", "-"} \cup WhiteSpace

Min(S) == CHOOSE x \in S : \A y \in S : x <= y
Max(S) == CHOOSE x \in S : \A y \in S : x >= y

\* last index e >= p - 1 such that s[p..e] lies in Class
RunEnd(s, p, Class) ==
  LET bad == {i \in p..Len(s) : s[i] \notin Class}
  IN  IF bad = {} THEN Len(s) ELSE Min(bad) - 1

\* last index e >= p - 1 such that no character of s[p..e] lies in Class
RunEndNot(s, p, Class) ==
  LET bad == {i \in p..Len(s) : s[i] \in Class}
  IN  IF bad = {} THEN Len(s) ELSE Min(bad) - 1

\* pat occurs in s at position p
MatchAt(s, p, pat) ==
  /\ p >= 1
  /\ p + Len(pat) - 1 <= Len(s)
  /\ \A i \in 1..Len(pat) : s[p + i - 1] = pat[i]

\* String.prototype.includes
includes(s, pat) == \E p \in 1..(Len(s) + 1) : MatchAt(s, p, pat)

\* a is an initial part of b
IsPrefix(a, b) == Len(a) <= Len(b) /\ a = SubSeq(b, 1, Len(a))

\* String.prototype.endsWith
endsWith(s, pat) == MatchAt(s, Len(s) - Len(pat) + 1, pat)

LowerOf(c) ==
  IF c \in Upper
  THEN LowerSeq[CHOOSE i \in DOMAIN UpperSeq : UpperSeq[i] = c]
  ELSE c

\* String.prototype.toLowerCase
toLowerCase(s) == [i \in 1..Len(s) |-> LowerOf(s[i])]

\* String.prototype.trim
trim(s) ==
  LET keep == {i \in 1..Len(s) : s[i] \notin WhiteSpace}
  IN  IF keep = {} THEN <<>> ELSE SubSeq(s, Min(keep), Max(keep))

\* s.replace(/c/g, d) for single characters
replaceAllChar(s, c, d) == [i \in 1..Len(s) |-> IF s[i] = c THEN d ELSE s[i]]

\* String.prototype.split on a single character
RECURSIVE split(_, _)
split(s, c) ==
  LET e == RunEndNot(s, 1, {c})
  IN  IF e = Len(s) THEN <<s>>
      ELSE <<SubSeq(s, 1, e)>> \o split(SubSeq(s, e + 2, Len(s)), c)

\* path.basename(p, ext) of node's posix path module, for paths that do
\* not end in a slash
basename(p, ext) ==
  LET slashes == {i \in 1..Len(p) : p[i] = "/"}
      start == IF slashes = {} THEN 1 ELSE Max(slashes) + 1
      base == SubSeq(p, start, Len(p))
  IN  IF p = ext THEN <<>>
      ELSE IF Len(ext) > 0 /\ Len(base) > Len(ext) /\ endsWith(base, ext)
           THEN SubSeq(base, 1, Len(base) - Len(ext))
           ELSE base

DotMd == <<".", "m", "d">>

-----------------------------------------------------------------------------
(* The note parser                                                         *)

\* /^#\s+(.+)$/m tried at position p: the captured group, as <<group>>,
\* or <<>> when the expression does not match there.  \s+ is greedy and
\* backtracks; (.+) then runs to the end of the line.
H1MatchAt(content, p) ==
  IF ~(/\ p <= Len(content)
       /\ (p = 1 \/ content[p - 1] \in LineTerminator)
       /\ content[p] = "#")
  THEN <<>>
  ELSE LET wsEnd == RunEnd(content, p + 1, WhiteSpace)
           ks == {k \in (p + 1)..wsEnd :
                    k + 1 <= Len(content) /\ content[k + 1] \notin LineTerminator}
       IN  IF ks = {} THEN <<>>
           ELSE LET k == Max(ks)
                IN  <<SubSeq(content, k + 1,
                             RunEndNot(content, k + 1, LineTerminator))>>

extractTitle(content, relativePath) ==
  LET hits == {p \in 1..Len(content) : H1MatchAt(content, p) # <<>>}
  IN  IF hits # {}
      THEN trim(H1MatchAt(content, Min(hits))[1])
      ELSE replaceAllChar(replaceAllChar(basename(relativePath, DotMd), "-", " "),
                          "_", " ")

\* JSON values: [t |-> "str", v |-> text], [t |-> "arr", v |-> <<values>>],
\* [t |-> "num", v |-> text] and [t |-> "lit", v |-> "true"|"false"|"null"]
JsonWs == {" ", "\n", "\t"}
JsonControl == {"\n", "\t"}
JsonFail == [ok |-> FALSE]

JsonSkipWs(s, p) == RunEnd(s, p, JsonWs) + 1

\* end of the non-empty run of digits starting at p, or 0
JsonDigits(s, p) ==
  IF p <= Len(s) /\ s[p] \in Digit THEN RunEnd(s, p, Digit) ELSE 0

\* end of the number whose integer and fraction end at f, with its optional
\* exponent; 0 when the exponent is malformed
JsonExp(s, f) ==
  IF f + 1 <= Len(s) /\ s[f + 1] \in {"e", "E"}
  THEN JsonDigits(s, IF f + 2 <= Len(s) /\ s[f + 2] \in {"+", "-"}
                     THEN f + 3 ELSE f + 2)
  ELSE f

JsonFracExp(s, f) == IF f = 0 THEN 0 ELSE JsonExp(s, f)

\* i: end of the integer part
JsonFrac(s, i) ==
  IF i + 1 <= Len(s) /\ s[i + 1] = "."
  THEN JsonFracExp(s, JsonDigits(s, i + 2))
  ELSE JsonExp(s, i)

\* i0: the position after the optional minus sign
JsonInt(s, i0) ==
  IF ~(i0 <= Len(s) /\ s[i0] \in Digit) THEN 0
  ELSE JsonFrac(s, IF s[i0] = "0" THEN i0 ELSE RunEnd(s, i0, Digit))

\* end of the JSON number starting at p, or 0 when there is none
JsonNumberEnd(s, p) == JsonInt(s, IF p <= Len(s) /\ s[p] = "-" THEN p + 1 ELSE p)

\* the string whose opening quote is at p and whose characters end at e
JsonString(s, p, e) ==
  IF e + 1 <= Len(s) /\ \A i \in (p + 1)..e : s[i] \notin JsonControl
  THEN [ok |-> TRUE, val |-> [t |-> "str", v |-> SubSeq(s, p + 1, e)],
        next |-> e + 2]
  ELSE JsonFail

\* the number starting at p and ending at e (0: none)
JsonNumber(s, p, e) ==
  IF e = 0 THEN JsonFail
  ELSE [ok |-> TRUE, val |-> [t |-> "num", v |-> SubSeq(s, p, e)], next |-> e + 1]

RECURSIVE JsonValue(_, _)
RECURSIVE JsonElements(_, _, _, _)
RECURSIVE JsonAfterElement(_, _, _)
RECURSIVE JsonSeparator(_, _, _)

\* the JSON value starting at p: [ok, val, next]
JsonValue(s, p) ==
  IF p > Len(s) THEN JsonFail
  ELSE IF s[p] = "\""
  THEN JsonString(s, p, RunEndNot(s, p + 1, {"\""}))
  ELSE IF s[p] = "["
  THEN JsonElements(s, JsonSkipWs(s, p + 1), <<>>, TRUE)
  ELSE IF MatchAt(s, p, <<"t","r","u","e">>)
  THEN [ok |-> TRUE, val |-> [t |-> "lit", v |-> "true"], next |-> p + 4]
  ELSE IF MatchAt(s, p, <<"f","a","l","s","e">>)
  THEN [ok |-> TRUE, val |-> [t |-> "lit", v |-> "false"], next |-> p + 5]
  ELSE IF MatchAt(s, p, <<"n","u","l","l">>)
  THEN [ok |-> TRUE, val |-> [t |-> "lit", v |-> "null"], next |-> p + 4]
  ELSE JsonNumber(s, p, JsonNumberEnd(s, p))

\* the elements of an array from p on, up to and including its "]"
JsonElements(s, p, acc, first) ==
  IF p > Len(s) THEN JsonFail
  ELSE IF first /\ s[p] = "]"
  THEN [ok |-> TRUE, val |-> [t |-> "arr", v |-> acc], next |-> p + 1]
  ELSE JsonAfterElement(s, JsonValue(s, p), acc)

\* r: the element just parsed
JsonAfterElement(s, r, acc) ==
  IF ~r.ok THEN JsonFail
  ELSE JsonSeparator(s, JsonSkipWs(s, r.next), Append(acc, r.val))

\* q: the position of the separator after an element
JsonSeparator(s, q, acc) ==
  IF q > Len(s) THEN JsonFail
  ELSE IF s[q] = ","
  THEN JsonElements(s, JsonSkipWs(s, q + 1), acc, FALSE)
  ELSE IF s[q] = "]"
  THEN [ok |-> TRUE, val |-> [t |-> "arr", v |-> acc], next |-> q + 1]
  ELSE JsonFail

\* r: the value parsed at the start of s; nothing but white space may follow
JsonWhole(s, r) ==
  IF r.ok /\ JsonSkipWs(s, r.next) = Len(s) + 1
  THEN [ok |-> TRUE, val |-> r.val]
  ELSE JsonFail

\* JSON.parse: [ok, val]; ok = FALSE stands for the SyntaxError it throws
JSONparse(s) == JsonWhole(s, JsonValue(s, JsonSkipWs(s, 1)))

Quotes == {"\"", "'"}

\* value.replace(/^["']|["']$/g, '')
stripQuotes(s) ==
  LET a == IF Len(s) >= 1 /\ s[1] \in Quotes THEN 2 ELSE 1
      b == IF Len(s) >= 2 /\ s[Len(s)] \in Quotes THEN Len(s) - 1 ELSE Len(s)
  IN  SubSeq(s, a, b)

\* the match of /^(\w+):\s*(.+)$/ with the key ending at keyEnd and the
\* white space after the colon ending at wsEnd: <<key, value>> or <<>>
FrontmatterKeyValue(line, keyEnd, wsEnd) ==
  IF /\ keyEnd >= 1
     /\ keyEnd + 1 <= Len(line)
     /\ line[keyEnd + 1] = ":"
     /\ keyEnd + 2 <= Len(line)
  THEN <<SubSeq(line, 1, keyEnd),
         SubSeq(line, IF wsEnd < Len(line) THEN wsEnd + 1 ELSE wsEnd, Len(line))>>
  ELSE <<>>

\* /^(\w+):\s*(.+)$/ on one line of the block.  \s* is greedy and gives its
\* last character back when nothing is left for (.+)
FrontmatterLine(line) ==
  FrontmatterKeyValue(line, RunEnd(line, 1, WordChar),
                      RunEnd(line, RunEnd(line, 1, WordChar) + 2, WhiteSpace))

\* r: the result of JSON.parse(value)
ParsedOrString(r, value) ==
  IF r.ok THEN r.val ELSE [t |-> "str", v |-> stripQuotes(value)]

\* frontmatter[key] = JSON.parse(value), or the unquoted string
FrontmatterValue(value) == ParsedOrString(JSONparse(value), value)

FrontmatterOpen == <<"-", "-", "-", "\n">>
FrontmatterClose == <<"\n", "-", "-", "-">>

\* qs: the positions of "\n---" after the opening line
FrontmatterGroup(content, qs) ==
  IF qs = {} THEN <<>> ELSE <<SubSeq(content, 5, Min(qs) - 1)>>

\* the group of /^---\n([\s\S]*?)\n---/, as <<group>>, or <<>>
FrontmatterBlock(content) ==
  IF ~MatchAt(content, 1, FrontmatterOpen) THEN <<>>
  ELSE FrontmatterGroup(content,
         {q \in 5..Len(content) : MatchAt(content, q, FrontmatterClose)})

\* frontmatter['__proto__'] = value reaches the setter of Object.prototype:
\* the object gets no property of its own by it
ProtoName == <<"_","_","p","r","o","t","o","_","_">>

\* kv: the match of a line; a later line overwrites an earlier one
FrontmatterSet(fm, kv) ==
  IF kv = <<>> \/ kv[1] = ProtoName THEN fm
  ELSE [k \in DOMAIN fm \cup {kv[1]} |->
          IF k = kv[1] THEN FrontmatterValue(kv[2]) ELSE fm[k]]

RECURSIVE FrontmatterAssign(_, _)
\* the loop over the lines of the block
FrontmatterAssign(lines, fm) ==
  IF lines = <<>> THEN fm
  ELSE FrontmatterAssign(Tail(lines), FrontmatterSet(fm, FrontmatterLine(Head(lines))))

EmptyMap == [k \in {} |-> <<>>]

FrontmatterOf(block) ==
  IF block = <<>> THEN EmptyMap
  ELSE FrontmatterAssign(split(block[1], "\n"), EmptyMap)

extractFrontmatter(content) == FrontmatterOf(FrontmatterBlock(content))

\* JavaScript truthiness of a front-matter value
Truthy(val) ==
  CASE val.t = "str" -> val.v # <<>>
    [] val.t = "arr" -> TRUE
    [] val.t = "lit" -> val.v = "true"
    [] val.t = "num" ->
         LET mantissa == SubSeq(val.v, 1, RunEndNot(val.v, 1, {"e", "E"}))
         IN  \E i \in 1..Len(mantissa) : mantissa[i] \in (Digit \ {"0"})

\* Set.prototype.add on an insertion-ordered set
SetAdd(tags, tag) == IF tag \in Range(tags) THEN tags ELSE Append(tags, tag)

TagsKey == <<"t", "a", "g", "s">>

RECURSIVE FrontmatterTags(_, _)
\* frontmatterTags.forEach: string elements, a leading # removed
FrontmatterTags(elems, tags) ==
  IF elems = <<>> THEN tags
  ELSE LET e == Head(elems)
           clean == IF Len(e.v) >= 1 /\ e.v[1] = "#"
                    THEN SubSeq(e.v, 2, Len(e.v)) ELSE e.v
       IN  FrontmatterTags(Tail(elems),
                           IF e.t = "str" THEN SetAdd(tags, clean) ELSE tags)

RECURSIVE InlineTags(_, _, _)
\* content.matchAll(/#([a-zA-Z0-9_\-\s]+)/g) from position p on
InlineTags(content, p, tags) ==
  LET hits == {i \in p..(Len(content) - 1) :
                 content[i] = "#" /\ content[i + 1] \in TagChar}
  IN  IF hits = {} THEN tags
      ELSE LET e == RunEnd(content, Min(hits) + 1, TagChar)
           IN  InlineTags(content, e + 1,
                          SetAdd(tags, trim(SubSeq(content, Min(hits) + 1, e))))

\* /\[\[([^\]]+)\]\]/ matches at position p
WikiLinkAt(content, p) ==
  /\ MatchAt(content, p, <<"[", "[">>)
  /\ RunEndNot(content, p + 2, {"]"}) >= p + 2
  /\ MatchAt(content, RunEndNot(content, p + 2, {"]"}) + 1, <<"]", "]">>)

RECURSIVE WikiLinkTags(_, _, _)
\* content.matchAll(/\[\[([^\]]+)\]\]/g) from position p on
WikiLinkTags(content, p, tags) ==
  LET hits == {i \in p..Len(content) : WikiLinkAt(content, i)}
  IN  IF hits = {} THEN tags
      ELSE LET e == RunEndNot(content, Min(hits) + 2, {"]"})
               linkText == SubSeq(content, Min(hits) + 2, e)
           IN  WikiLinkTags(content, e + 3,
                 IF "." \notin Range(linkText) /\ "/" \notin Range(linkText)
                 THEN SetAdd(tags, linkText) ELSE tags)

extractTags(content, frontmatter) ==
  LET fmTags ==
        IF TagsKey \in DOMAIN frontmatter /\ Truthy(frontmatter[TagsKey])
        THEN FrontmatterTags(IF frontmatter[TagsKey].t = "arr"
                             THEN frontmatter[TagsKey].v
                             ELSE <<frontmatter[TagsKey]>>, <<>>)
        ELSE <<>>
  IN  WikiLinkTags(content, 1, InlineTags(content, 1, fmTags))


-----------------------------------------------------------------------------
(* Bounds of the model                                                     *)

\* at most this many files exist in the modelled file system
MaxFiles == 2
\* result limits range over 0..MaxLimit (and "no limit")
MaxLimit == 1
\* at most this many numbered notes exist in the large corpora
MaxNotes == 22
\* at most this many files exist in the modelled directory tree
MaxTreeFiles == 4
\* at most this many files fail to be read or parsed
MaxFaults == 1
\* the enumerated documents have at most this many characters
MaxDocLen == 4
\* the index document is written at most this many times
MaxIndexRuns == 3

-----------------------------------------------------------------------------
(* The file system and the environment                                     *)

GhostVaultName == <<"G","h","o","s","t"," ","A","I"," ","V","a","u","l","t">>
GhostVaultPath == "/g"

\* the vault roots of the modelled file system
Roots == {GhostVaultPath, "/a", "/b"}

\* The files that may exist under a root, each directly below the root.
\* name: file name, content: the text readFile returns, mtime: stats.mtime.
\* 1: front-matter tags, a heading and an inline tag
\* 2: an inline tag with an upper-case letter, title from the file name
\* 3: a wiki link only
\* 4: an inline tag that names a property of Object.prototype
FileCatalog == <<
  [name |-> <<"h","i",".","m","d">>,
   content |-> <<"-","-","-","\n","t","a","g","s",":"," ","[","\"","x","\"",
                 ","," ","\"","y","\"","]","\n","-","-","-","\n",
                 "#"," ","H","e","l","l","o","\n",
                 "B","o","d","y"," ","#","z"," ","t","e","x","t">>,
   mtime |-> 2],
  [name |-> <<"f","i","n","-","l","o","g",".","m","d">>,
   content |-> <<"#","F","i","n","a","n","c","e">>,
   mtime |-> 2],
  [name |-> <<"l","e","g","a","l",".","m","d">>,
   content |-> <<"[","[","l","e","g","a","l","]","]">>,
   mtime |-> 1],
  [name |-> <<"c","_","t","o","r",".","m","d">>,
   content |-> <<"#","c","o","n","s","t","r","u","c","t","o","r">>,
   mtime |-> 1] >>

FileIds == DOMAIN FileCatalog

DigitSeq == <<"0","1","2","3","4","5","6","7","8","9">>

\* The numbered notes of a large corpus: note k is the empty file nXY.md
\* (XY the two digits of k); the times of consecutive notes differ and repeat.
NumberedNote(k) ==
  [name |-> <<"n", DigitSeq[(k \div 10) + 1], DigitSeq[(k % 10) + 1]>> \o DotMd,
   content |-> <<>>,
   mtime |-> 1 + ((k * 3) % 11)]

NoteIds == (Len(FileCatalog) + 1)..(Len(FileCatalog) + MaxNotes)

ObsidianDir == <<".","o","b","s","i","d","i","a","n">>
GitDir == <<".","g","i","t">>
Sub == <<"s","u","b">>

\* The files of a directory tree; dir: the directories from the root down to
\* the file.  Directories exist as far as files lie below them.
TreeCatalog == <<
  [dir |-> <<>>,                      name |-> <<"r",".","m","d">>],
  [dir |-> <<Sub>>,                   name |-> <<"s",".","m","d">>],
  [dir |-> <<Sub, <<"d","e","e","p">> >>, name |-> <<"d",".","m","d">>],
  [dir |-> <<ObsidianDir>>,           name |-> <<"o",".","m","d">>],
  [dir |-> <<Sub, GitDir>>,           name |-> <<"g",".","m","d">>],
  [dir |-> <<ObsidianDir, Sub>>,      name |-> <<"n",".","m","d">>],
  [dir |-> <<GitDir \o <<"h","u","b">> >>, name |-> <<"h",".","m","d">>],
  [dir |-> << <<"x">> \o GitDir>>,    name |-> <<"x",".","m","d">>],
  [dir |-> << <<"y",".","m","d">> >>, name |-> <<"y",".","m","d">>],
  [dir |-> <<Sub>>,                   name |-> <<"t",".","t","x","t">>],
  [dir |-> <<>>,                      name |-> <<"N",".","M","D">>],
  [dir |-> <<>>,                      name |-> <<".","m","d">>],
  [dir |-> <<Sub>>,                   name |-> GitDir] >>

TreeIds == (Len(FileCatalog) + MaxNotes + 1)..
             (Len(FileCatalog) + MaxNotes + Len(TreeCatalog))

\* a file of the tree: empty, with a time of its own
TreeFile(k) == [content |-> <<>>, mtime |-> 1] @@ TreeCatalog[k]

\* A file of the catalog after it was modified: a line with a tag is
\* appended and the time is later than every other time.
RevOffset == Len(FileCatalog) + MaxNotes + Len(TreeCatalog)
Revised(f) == f + RevOffset
RevisedIds == {Revised(f) : f \in FileIds}
Appended == <<"\n", "#", "n", "e", "w">>
RevisedFile(f) ==
  [dir |-> <<>>, name |-> FileCatalog[f].name,
   content |-> FileCatalog[f].content \o Appended, mtime |-> 3]

\* A character outside the Basic Latin block is written as one element
\* with a name in angle brackets.
Books == "<books>"

\* the name of the index document, directly below the root of the primary vault
IndexName == <<Books>> \o
  <<" ","C","r","o","s","s","-","V","a","u","l","t"," ","I","n","d","e",
     "x",".","m","d">>

\* the id of the index document among the files of the primary vault
IndexId == 0

\* no index document was written yet; runs counts the writes
NoIndex == [content |-> <<>>, mtime |-> 0, runs |-> 0]

\* the file behind an id: where it lies, and what readFile and stat return
File(f) ==
  IF f = IndexId
  THEN [dir |-> <<>>, name |-> IndexName,
        content |-> fs.index.content, mtime |-> fs.index.mtime]
  ELSE IF f \in FileIds THEN [dir |-> <<>>] @@ FileCatalog[f]
  ELSE IF f \in NoteIds THEN [dir |-> <<>>] @@ NumberedNote(f - Len(FileCatalog))
  ELSE IF f \in TreeIds THEN TreeFile(f - Len(FileCatalog) - MaxNotes)
  ELSE RevisedFile(f - RevOffset)

\* the recordings directory before any import: its files by name, the
\* number of imports made, and the lifelogs written so far
NoRecordings == [files |-> [k \in {} |-> <<>>], imports |-> 0, written |-> {}, zone |-> 0]

\* the last change made to the file system between two calls, if any
NoChange == [kind |-> "none"]

RECURSIVE join(_)
\* path.join of the directories and the file name
join(parts) ==
  IF Len(parts) = 1 THEN parts[1]
  ELSE parts[1] \o <<"/">> \o join(Tail(parts))

\* the path of a file below the root of its vault
RelPath(file) == join(Append(file.dir, file.name))

\* process.env after dotenv.config: index i |-> the VAULT_i_* entries
EnvConfigs ==
  { (1 :> [name |-> <<"A">>, path |-> "/a", enabled |-> "true"]) @@
    (2 :> [name |-> n, path |-> "/b", enabled |-> en]) :
      n \in {<<"A">>, <<"B">>}, en \in {"true", "false"} }

\* env[`VAULT_${i}_NAME`] etc.; an unset variable reads as undefined
envGet(e, i) ==
  IF i \in DOMAIN e THEN e[i]
  ELSE [name |-> <<>>, path |-> "", enabled |-> ""]

-----------------------------------------------------------------------------
(* The registry                                                            *)

\* the loop bound of loadExternalVaults
MaxVaultIndex == 10

RECURSIVE loadLoop(_, _, _)
loadLoop(e, i, vaults) ==
  IF i > MaxVaultIndex THEN vaults
  ELSE LET v == envGet(e, i)
       IN  loadLoop(e, i + 1,
             IF v.name # <<>> /\ v.path # "" /\ v.enabled = "true"
             THEN Append(vaults, [name |-> v.name, path |-> v.path,
                                  enabled |-> TRUE, type |-> "external"])
             ELSE vaults)

loadExternalVaults(e) == loadLoop(e, 1, <<>>)

ghostVault == [name |-> GhostVaultName, path |-> GhostVaultPath,
               enabled |-> TRUE, type |-> "ghost"]

getAllVaults == <<ghostVault>> \o externalVaults

getExternalVaults == SelectSeq(externalVaults, LAMBDA v : v.enabled)

\* validateVault without the access check
validateVaultAlways(vault) == TRUE

\* access(vault.path) succeeds
validateVault(vault) == vault.path \in Roots /\ fs.up[vault.path]

-----------------------------------------------------------------------------
(* Scanning and parsing a vault                                            *)

\* a scan that enters no hidden directory at all
SkipsDotDirs(name) == name # <<>> /\ name[1] = "."

\* entry.name === '.obsidian' || entry.name === '.git'
IsSkippedDir(name) == name = ObsidianDir \/ name = GitDir

\* an entry that is not a directory is returned when its name ends in .md
FileEntry(f) == IF endsWith(File(f).name, DotMd) THEN <<f>> ELSE <<>>

\* The directory entry of the directory at prefix that leads to file f, and
\* the files among left that lie below that entry.
SubDir(prefix, f) == Append(prefix, File(f).dir[Len(prefix) + 1])
InSubDir(prefix, left) ==
  {g \in left : IsPrefix(SubDir(prefix, Min(left)), File(g).dir)}

\* readdir throws on the directory at prefix below the root
CannotOpen(root, prefix) == [root |-> root, dir |-> prefix] \in fs.closed

\* the error of a directory that cannot be opened leaves the loop of the
\* directory above it
RestAfterThrow(root, prefix, left) ==
  IF CannotOpen(root, SubDir(prefix, Min(left))) THEN {}
  ELSE left \ InSubDir(prefix, left)

\* the files still to come after the directory entry was handled: the
\* recursive call catches its own error, so the loop always goes on
RestAfter(root, prefix, left) == left \ InSubDir(prefix, left)

RECURSIVE ScanDir(_, _, _)
\* The loop of getMarkdownFiles over the entries of the directory at prefix;
\* left: the files at or below the entries still to come.  readdir gives the
\* entries in a fixed order: by the smallest file at or below the entry.
\* The recursive call on a directory that cannot be opened returns no file.
ScanDir(root, prefix, left) ==
  IF left = {} THEN <<>>
  ELSE IF File(Min(left)).dir = prefix
  THEN FileEntry(Min(left)) \o ScanDir(root, prefix, left \ {Min(left)})
  ELSE (IF \/ IsSkippedDir(File(Min(left)).dir[Len(prefix) + 1])
           \/ CannotOpen(root, SubDir(prefix, Min(left)))
        THEN <<>>
        ELSE ScanDir(root, SubDir(prefix, Min(left)), InSubDir(prefix, left)))
       \o ScanDir(root, prefix, RestAfter(root, prefix, left))

\* readdir fails on a directory that cannot be opened; the error is caught
getMarkdownFiles(dir) ==
  IF dir \in Roots /\ fs.up[dir] /\ ~CannotOpen(dir, <<>>)
  THEN ScanDir(dir, <<>>, fs.files[dir]) ELSE <<>>

\* the note built from a file's content and its front-matter
NoteOf(file, frontmatter) ==
  [path |-> RelPath(file),
   title |-> extractTitle(file.content, RelPath(file)),
   content |-> file.content,
   tags |-> extractTags(file.content, frontmatter),
   frontmatter |-> frontmatter,
   lastModified |-> file.mtime,
   size |-> Len(file.content)]

\* the part of parseNoteFile that depends on the file alone
ParseFile(f) == NoteOf(File(f), extractFrontmatter(File(f).content))

ParsedCatalog ==
  [f \in FileIds \cup NoteIds \cup TreeIds \cup RevisedIds |-> ParseFile(f)]

\* what parseNoteFile returns after catching an error
Null == [vault |-> <<>>, path |-> <<>>, null |-> TRUE]

\* readFile, stat or the parsing of file f of the vault throws
Fails(vault, f) == \E x \in fs.faults : x.root = vault.path /\ x.file = f

parseNoteFile(vault, f) ==
  IF Fails(vault, f) THEN Null
  ELSE IF f = IndexId THEN [vault |-> vault.name] @@ ParseFile(f)
  ELSE [vault |-> vault.name] @@ ParsedCatalog[f]

RECURSIVE ParseUntilFailure(_, _)
\* a loop over the files that ends at the first file that fails
ParseUntilFailure(vault, files) ==
  IF files = <<>> \/ parseNoteFile(vault, Head(files)) = Null THEN <<>>
  ELSE <<parseNoteFile(vault, Head(files))>> \o ParseUntilFailure(vault, Tail(files))

RECURSIVE ParseAll(_, _)
\* the loop over the files: if (note) notes.push(note)
ParseAll(vault, files) ==
  IF files = <<>> THEN <<>>
  ELSE (IF parseNoteFile(vault, Head(files)) # Null
        THEN <<parseNoteFile(vault, Head(files))>> ELSE <<>>)
       \o ParseAll(vault, Tail(files))

readVaultNotes(vault) == ParseAll(vault, getMarkdownFiles(vault.path))

-----------------------------------------------------------------------------
(* Search                                                                  *)

\* An optional argument: def = FALSE stands for undefined.
Undefined == [def |-> FALSE, v |-> <<>>]
\* an absent number
NoLimit == [def |-> FALSE, v |-> 0]
Some(x) == [def |-> TRUE, v |-> x]

\* VaultsToSearch without the filter
VaultsToSearchAll(options) == getAllVaults

\* options.vaults ? getAllVaults().filter(...) : getAllVaults()
\* (an array, empty or not, is truthy)
VaultsToSearch(options) ==
  IF options.vaults.def
  THEN SelectSeq(getAllVaults, LAMBDA v : v.name \in Range(options.vaults.v))
  ELSE getAllVaults

RECURSIVE ScanVaults(_)
\* the loop over the vaults: skip a vault that does not validate
ScanVaults(vaults) ==
  IF vaults = <<>> THEN <<>>
  ELSE (IF validateVault(Head(vaults)) THEN readVaultNotes(Head(vaults)) ELSE <<>>)
       \o ScanVaults(Tail(vaults))

\* the tag filter comparing the tags of the note as they are written
TagStepCaseSensitive(notes, options) ==
  IF options.tags.def /\ Len(options.tags.v) > 0
  THEN SelectSeq(notes, LAMBDA note :
         \E i \in DOMAIN options.tags.v : \E j \in DOMAIN note.tags :
           includes(note.tags[j], toLowerCase(options.tags.v[i])))
  ELSE notes

\* the tag filter
TagStep(notes, options) ==
  IF options.tags.def /\ Len(options.tags.v) > 0
  THEN SelectSeq(notes, LAMBDA note :
         \E i \in DOMAIN options.tags.v : \E j \in DOMAIN note.tags :
           includes(toLowerCase(note.tags[j]), toLowerCase(options.tags.v[i])))
  ELSE notes

\* the content/title filter without the includeContent flag
TextStepAlwaysContent(notes, query, options) ==
  IF query # <<>>
  THEN SelectSeq(notes, LAMBDA note :
         \/ includes(toLowerCase(note.title), toLowerCase(query))
         \/ includes(toLowerCase(note.content), toLowerCase(query)))
  ELSE notes

\* the content/title filter
TextStep(notes, query, options) ==
  IF query # <<>>
  THEN SelectSeq(notes, LAMBDA note :
         \/ includes(toLowerCase(note.title), toLowerCase(query))
         \/ (options.includeContent /\
             includes(toLowerCase(note.content), toLowerCase(query))))
  ELSE notes

\* one step of a sort that puts a note before the notes of the same time
InsertNoteBeforeEqual(sorted, note) ==
  LET k == Cardinality({i \in DOMAIN sorted :
                          sorted[i].lastModified > note.lastModified})
  IN  SubSeq(sorted, 1, k) \o <<note>> \o SubSeq(sorted, k + 1, Len(sorted))

\* one step of the stable sort by descending lastModified
InsertNote(sorted, note) ==
  LET k == Cardinality({i \in DOMAIN sorted :
                          sorted[i].lastModified >= note.lastModified})
  IN  SubSeq(sorted, 1, k) \o <<note>> \o SubSeq(sorted, k + 1, Len(sorted))

RECURSIVE SortFrom(_, _)
SortFrom(notes, sorted) ==
  IF notes = <<>> THEN sorted
  ELSE SortFrom(Tail(notes), InsertNote(sorted, Head(notes)))

\* notes.sort((a, b) => b.lastModified.getTime() - a.lastModified.getTime())
sortNotes(notes) == SortFrom(notes, <<>>)

\* a slice that cuts nothing
sliceWhole(a, end) == a

\* Array.prototype.slice(0, end)
slice0(a, end) ==
  LET e == IF end < 0 THEN Max({Len(a) + end, 0}) ELSE Min({end, Len(a)})
  IN  SubSeq(a, 1, e)

\* if (options.limit) slice(0, options.limit): 0 is falsy
LimitStep(notes, options) ==
  IF options.limit.def /\ options.limit.v # 0
  THEN slice0(notes, options.limit.v)
  ELSE notes

\* the result of a search with the values of its local variables
SearchResult(query, options, allNotes, tagged, texted) ==
  [op |-> "search", ok |-> TRUE, calls |-> 1, query |-> query, options |-> options,
   allNotes |-> allNotes, tagged |-> tagged, texted |-> texted,
   notes |-> LimitStep(sortNotes(texted), options)]

SearchTexted(query, options, allNotes, tagged) ==
  SearchResult(query, options, allNotes, tagged, TextStep(tagged, query, options))

SearchTagged(query, options, allNotes) ==
  SearchTexted(query, options, allNotes, TagStep(allNotes, options))

\* notes that live on from the previous search of the manager
KeptNotes(vaults) ==
  IF out.op = "search" THEN out.allNotes ELSE ScanVaults(vaults)

\* const allNotes = []: every search reads the vaults anew
NewNotes(vaults) == ScanVaults(vaults)

searchAllVaults(query, options) ==
  SearchTagged(query, options, NewNotes(VaultsToSearch(options)))

-----------------------------------------------------------------------------
(* Statistics and the cross-vault index                                    *)

RECURSIVE SumSizes(_)
SumSizes(notes) ==
  IF notes = <<>> THEN 0 ELSE Head(notes).size + SumSizes(Tail(notes))

\* stats[vault.name] = {noteCount, totalSize}
StatsSet(stats, name, notes) ==
  [n \in DOMAIN stats \cup {name} |->
     IF n = name
     THEN [noteCount |-> Len(notes), totalSize |-> SumSizes(notes)]
     ELSE stats[n]]

RECURSIVE StatsLoop(_, _)
\* the loop of getVaultStats over the vaults: skip a vault that does not validate
StatsLoop(vaults, stats) ==
  IF vaults = <<>> THEN stats
  ELSE StatsLoop(Tail(vaults),
         IF validateVault(Head(vaults))
         THEN StatsSet(stats, Head(vaults).name, readVaultNotes(Head(vaults)))
         ELSE stats)

getVaultStats == StatsLoop(getAllVaults, EmptyMap)

\* Names every plain object inherits from Object.prototype (some of them):
\* topicIndex[tag] is truthy for them although topicIndex is empty.
ProtoKeys == { <<"c","o","n","s","t","r","u","c","t","o","r">>,
               <<"t","o","S","t","r","i","n","g">>,
               <<"v","a","l","u","e","O","f">>,
               <<"_","_","p","r","o","t","o","_","_">> }

\* topicIndex[tag].count++ and the push of the vault name
TopicSet(topics, tag, old, vaultName) ==
  [t \in DOMAIN topics \cup {tag} |->
     IF t = tag
     THEN [count |-> old.count + 1, vaults |-> SetAdd(old.vaults, vaultName)]
     ELSE topics[t]]

\* One pass of the inner loop body for a tag.  idx = [ok, topics]; ok = FALSE
\* after topicIndex[tag].vaults.includes threw on an inherited property.
IndexTag(idx, tag, vaultName) ==
  IF ~idx.ok THEN idx
  ELSE IF tag \notin DOMAIN idx.topics /\ tag \in ProtoKeys
  THEN [idx EXCEPT !.ok = FALSE]
  ELSE [idx EXCEPT !.topics =
          TopicSet(idx.topics, tag,
                   IF tag \in DOMAIN idx.topics THEN idx.topics[tag]
                   ELSE [count |-> 0, vaults |-> <<>>],
                   vaultName)]

RECURSIVE IndexTags(_, _, _)
IndexTags(idx, tags, vaultName) ==
  IF tags = <<>> THEN idx
  ELSE IndexTags(IndexTag(idx, Head(tags), vaultName), Tail(tags), vaultName)

RECURSIVE IndexNotes(_, _)
IndexNotes(idx, notes) ==
  IF notes = <<>> THEN idx
  ELSE IndexNotes(IndexTags(idx, Head(notes).tags, Head(notes).vault), Tail(notes))

RECURSIVE IndexVaults(_, _)
\* the loop over the vaults of generateCrossVaultIndex
IndexVaults(idx, vaults) ==
  IF vaults = <<>> THEN idx
  ELSE IndexVaults(IF validateVault(Head(vaults))
                   THEN IndexNotes(idx, readVaultNotes(Head(vaults)))
                   ELSE idx,
                   Tail(vaults))

\* the cap of recentNotes
RecentCap == 20

\* the value returned, or ok = FALSE when the loop threw; calls counts the
\* calls made on this manager
IndexResult(allNotes, idx) ==
  IF idx.ok
  THEN [op |-> "index", ok |-> TRUE, calls |-> 1, allNotes |-> allNotes,
        topics |-> idx.topics,
        recentNotes |-> slice0(sortNotes(allNotes), RecentCap),
        vaultStats |-> getVaultStats]
  ELSE [op |-> "index", ok |-> FALSE, calls |-> 1, allNotes |-> allNotes,
        topics |-> EmptyMap, recentNotes |-> <<>>, vaultStats |-> EmptyMap]

\* a topic index that lives on from the previous call of the manager
KeptTopicIndex ==
  IF out.op = "index" THEN [ok |-> TRUE, topics |-> out.topics]
  ELSE [ok |-> TRUE, topics |-> EmptyMap]

\* const topicIndex = {}: every call starts from an empty topic index
NewTopicIndex == [ok |-> TRUE, topics |-> EmptyMap]

generateCrossVaultIndex ==
  IndexResult(ScanVaults(getAllVaults), IndexVaults(NewTopicIndex, getAllVaults))

-----------------------------------------------------------------------------
(* The index document of the vaults index command                          *)

Label == "<label>"
Clock == "<clock>"
Chart == "<chart>"
Ghost == "<ghost>"
Folder == "<folder>"

RECURSIVE Digits(_)
\* a natural number as a decimal numeral
Digits(n) ==
  IF n < 10 THEN <<DigitSeq[n + 1]>>
  ELSE Digits(n \div 10) \o <<DigitSeq[(n % 10) + 1]>>

\* new Date().toLocaleString(): the day of the model's clock in a date
LocaleString(now) ==
  <<"1", "/">> \o Digits(now) \o <<"/", "2", "0", "2", "6">>

\* getRelativeTime, the day being the unit of the model's clock
getRelativeTime(date, now) ==
  IF now - date > 0
  THEN Digits(now - date) \o <<" ","d","a","y">> \o
       (IF now - date > 1 THEN <<"s">> ELSE <<>>) \o <<" ","a","g","o">>
  ELSE <<"J","u","s","t"," ","n","o","w">>

\* Math.round(totalSize / 1024 / 1024 * 100): hundredths of a megabyte
Hundredths(totalSize) == (totalSize * 200 + 1048576) \div 2097152

\* the number h / 100 as JavaScript prints it
Fraction(h) ==
  Digits(h \div 100) \o
  (IF h % 100 = 0 THEN <<>>
   ELSE IF h % 10 = 0 THEN <<".", DigitSeq[((h % 100) \div 10) + 1]>>
   ELSE <<".", DigitSeq[((h % 100) \div 10) + 1], DigitSeq[(h % 10) + 1]>>)

GhostWord == <<"G","h","o","s","t">>

\* v.includes('Ghost') ? ghost : folder
IconOfName(v) == IF includes(v, GhostWord) THEN Ghost ELSE Folder

\* note.vault === 'Ghost AI Vault' ? ghost : folder
IconOfVault(v) == IF v = GhostVaultName THEN Ghost ELSE Folder

RECURSIVE JoinIcons(_)
\* vaults.map(icon).join(' ')
JoinIcons(vaults) ==
  IF vaults = <<>> THEN <<>>
  ELSE IF Len(vaults) = 1 THEN <<IconOfName(vaults[1])>>
  ELSE <<IconOfName(vaults[1]), " ">> \o JoinIcons(Tail(vaults))

RECURSIVE TopicKeys(_, _)
\* Object.entries(index.topics): the tags in the order of their first
\* occurrence in the scanned notes
TopicKeys(tags, keys) ==
  IF tags = <<>> THEN keys ELSE TopicKeys(Tail(tags), SetAdd(keys, Head(tags)))

RECURSIVE AllTags(_)
AllTags(notes) ==
  IF notes = <<>> THEN <<>> ELSE Head(notes).tags \o AllTags(Tail(notes))

\* one step of the stable sort of the entries by descending count
InsertTopic(sorted, tag, topics) ==
  SubSeq(sorted, 1, Cardinality({i \in DOMAIN sorted :
                                   topics[sorted[i]].count >= topics[tag].count}))
  \o <<tag>> \o
  SubSeq(sorted, Cardinality({i \in DOMAIN sorted :
                                topics[sorted[i]].count >= topics[tag].count}) + 1,
         Len(sorted))

RECURSIVE SortTopics(_, _, _)
SortTopics(keys, sorted, topics) ==
  IF keys = <<>> THEN sorted
  ELSE SortTopics(Tail(keys), InsertTopic(sorted, Head(keys), topics), topics)

\* the number of topics shown
TopCap == 10
\* the number of recent notes written to the index document
RecentShown == 10

\* Object.entries(index.topics).sort(by count).slice(0, 10)
TopTopics(index) ==
  slice0(SortTopics(TopicKeys(AllTags(index.allNotes), <<>>), <<>>, index.topics),
         TopCap)

RECURSIVE TopicRows(_, _)
\* `| ${topic} | ${count} | ${vaultIcons} |\n` for the top topics
TopicRows(keys, topics) ==
  IF keys = <<>> THEN <<>>
  ELSE <<"|", " ">> \o Head(keys) \o <<" ", "|", " ">> \o
       Digits(topics[Head(keys)].count) \o <<" ", "|", " ">> \o
       JoinIcons(topics[Head(keys)].vaults) \o <<" ", "|", "\n">> \o
       TopicRows(Tail(keys), topics)

RECURSIVE RecentLines(_, _)
\* `- ${vaultIcon} **[[${note.title}]]** (${note.vault}) - ${relativeTime}\n`
RecentLines(notes, now) ==
  IF notes = <<>> THEN <<>>
  ELSE <<"-", " ", IconOfVault(Head(notes).vault), " ", "*", "*", "[", "[">> \o
       Head(notes).title \o <<"]", "]", "*", "*", " ", "(">> \o
       Head(notes).vault \o <<")", " ", "-", " ">> \o
       getRelativeTime(Head(notes).lastModified, now) \o <<"\n">> \o
       RecentLines(Tail(notes), now)

RECURSIVE StatNames(_, _)
\* Object.entries(index.vaultStats): the names in the order of the vaults
StatNames(vaults, stats) ==
  IF vaults = <<>> THEN <<>>
  ELSE (IF Head(vaults).name \in DOMAIN stats THEN <<Head(vaults).name>> ELSE <<>>)
       \o StatNames(Tail(vaults), stats)

RECURSIVE StatLines(_, _)
\* `- ${vaultIcon} **${vaultName}**: ${noteCount} notes, ${sizeMB} MB\n`
StatLines(names, stats) ==
  IF names = <<>> THEN <<>>
  ELSE <<"-", " ", IconOfName(Head(names)), " ", "*", "*">> \o Head(names) \o
       <<"*", "*", ":", " ">> \o Digits(stats[Head(names)].noteCount) \o
       <<" ","n","o","t","e","s",","," ">> \o
       Fraction(Hundredths(stats[Head(names)].totalSize)) \o <<" ", "M", "B", "\n">> \o
       StatLines(Tail(names), stats)

IndexTitleLine ==
  <<"#", " ", Books>> \o
  <<" ","C","r","o","s","s","-","V","a","u","l","t"," ","K","n","o","w",
     "l","e","d","g","e"," ","I","n","d","e","x","\n","\n","*","G","e","n",
     "e","r","a","t","e","d"," ","o","n"," ">>
IndexTopicsHead ==
  <<"*", "\n", "\n", "#", "#", " ", Label>> \o
  <<" "," ","P","o","p","u","l","a","r"," ","T","o","p","i","c","s","\n",
     "\n","|"," ","T","o","p","i","c"," ","|"," ","C","o","u","n","t"," ",
     "|"," ","V","a","u","l","t","s"," ","|","\n","|","-","-","-","-","-",
     "-","-","|","-","-","-","-","-","-","-","-","|","-","-","-","-","-",
     "-","-","-","|","\n">>
IndexRecentHead ==
  <<"\n", "\n", "#", "#", " ", Clock>> \o
  <<" ","R","e","c","e","n","t"," ","A","c","t","i","v","i","t","y","\n",
     "\n">>
IndexStatsHead ==
  <<"\n", "\n", "#", "#", " ", Chart>> \o
  <<" ","V","a","u","l","t"," ","S","t","a","t","i","s","t","i","c","s",
     "\n","\n">>
IndexFoot ==
  <<"\n","\n","-","-","-","\n","\n","*","I","n","d","e","x"," ","a","u",
     "t","o","m","a","t","i","c","a","l","l","y"," ","g","e","n","e","r",
     "a","t","e","d"," ","b","y"," ","G","h","o","s","t"," ","A","I"," ",
     "A","s","s","i","s","t","a","n","t","*">>

\* indexContent as the command builds it from the index
IndexContent(index, now) ==
  IndexTitleLine \o LocaleString(now) \o IndexTopicsHead \o
  TopicRows(TopTopics(index), index.topics) \o IndexRecentHead \o
  RecentLines(slice0(index.recentNotes, RecentShown), now) \o IndexStatsHead \o
  StatLines(TopicKeys(StatNames(getAllVaults, index.vaultStats), <<>>),
            index.vaultStats) \o
  IndexFoot

-----------------------------------------------------------------------------
(* The state machine                                                       *)

Texts == { <<>>, <<"B","O","D","Y">>, <<"L","O">> }

TagFilters == { Undefined, Some(<<>>), Some(<< <<"f","i","n">> >>),
                Some(<< <<"L","E","G","A","L">>, <<"x">> >>) }

VaultFilters == { Undefined, Some(<<>>), Some(<< <<"A">> >>),
                  Some(<< <<"N","o","n","e","x","i","s","t","e","n","t">>,
                          <<"a">> >>) }

Limits == {NoLimit} \cup {Some(n) : n \in 0..MaxLimit}

\* the options that are set in a query
SetOptions(q) ==
  {o \in {"text", "tags", "vaults", "limit"} :
     \/ o = "text" /\ q.query # <<>>
     \/ o = "tags" /\ q.options.tags.def
     \/ o = "vaults" /\ q.options.vaults.def
     \/ o = "limit" /\ q.options.limit.def}

\* the queries of the model: every combination of the above in which at
\* most two of the four options are set
Queries ==
  { q \in [query : Texts,
           options : [includeContent : BOOLEAN, tags : TagFilters,
                      vaults : VaultFilters, limit : Limits]] :
      /\ Cardinality(SetOptions(q)) <= 2
      /\ q.query = <<>> => ~q.options.includeContent }

Idle == [op |-> "none"]

FileCount == LET sizes == [r \in Roots |-> Cardinality(fs.files[r])]
             IN  sizes[GhostVaultPath] + sizes["/a"] + sizes["/b"]

Init ==
  /\ env \in EnvConfigs
  /\ externalVaults = loadExternalVaults(env)
  /\ fs = [up |-> [r \in Roots |-> TRUE], files |-> [r \in Roots |-> {}],
           faults |-> {}, closed |-> {}, last |-> NoChange,
           index |-> NoIndex, rec |-> NoRecordings]
  /\ out = Idle

\* a file appears under a root
WriteFile(r, f) ==
  /\ out = Idle
  /\ f \notin fs.files[r]
  /\ FileCount < MaxFiles
  /\ fs' = [fs EXCEPT !.files[r] = @ \cup {f}]
  /\ UNCHANGED <<env, externalVaults, out>>

\* a file disappears
DeleteFile(r, f) ==
  /\ out = Idle
  /\ f \in fs.files[r]
  /\ fs' = [fs EXCEPT !.files[r] = @ \ {f},
                      !.faults = {x \in @ : ~(x.root = r /\ x.file = f)}]
  /\ UNCHANGED <<env, externalVaults, out>>

\* a root becomes unreachable (one at a time), or reachable again
SetReachable(r, b) ==
  /\ out = Idle
  /\ fs.up[r] # b
  /\ b \/ \A x \in Roots : fs.up[x]
  /\ fs' = [fs EXCEPT !.up[r] = b]
  /\ UNCHANGED <<env, externalVaults, out>>

\* vaults search: a new manager is constructed, then searchAllVaults runs
Search(q) ==
  /\ out = Idle
  /\ externalVaults' = loadExternalVaults(env)
  /\ out' = searchAllVaults(q.query, q.options)
  /\ UNCHANGED <<env, fs>>

\* vaults index: generateCrossVaultIndex
BuildIndex ==
  /\ out = Idle
  /\ externalVaults' = loadExternalVaults(env)
  /\ out' = generateCrossVaultIndex
  /\ UNCHANGED <<env, fs>>

\* generateCrossVaultIndex is called a second time on the same manager
BuildIndexAgain ==
  /\ out.op = "index"
  /\ out.calls = 1
  /\ out' = [generateCrossVaultIndex EXCEPT !.calls = 2]
  /\ UNCHANGED <<env, externalVaults, fs>>

\* the command has printed its result and the process exits
Return ==
  /\ out # Idle
  /\ out' = Idle
  /\ UNCHANGED <<env, externalVaults, fs>>

Next ==
  \/ \E r \in Roots, f \in FileIds : WriteFile(r, f)
  \/ \E r \in Roots, f \in FileIds : DeleteFile(r, f)
  \/ \E r \in Roots, b \in BOOLEAN : SetReachable(r, b)
  \/ \E q \in Queries : Search(q)
  \/ BuildIndex
  \/ BuildIndexAgain
  \/ Return

Spec == Init /\ [][Next]_vars

\* The next numbered note appears: the primary vault is filled first, then
\* the vault at /a.
AddNote(r) ==
  /\ out = Idle
  /\ FileCount < MaxNotes
  /\ r = GhostVaultPath => fs.files["/a"] = {}
  /\ fs' = [fs EXCEPT !.files[r] = @ \cup {Len(FileCatalog) + FileCount + 1}]
  /\ UNCHANGED <<env, externalVaults, out>>

\* a file appears in the directory tree of the vault at /a
PutTreeFile(f) ==
  /\ out = Idle
  /\ f \notin fs.files["/a"]
  /\ Cardinality(fs.files["/a"]) < MaxTreeFiles
  /\ fs' = [fs EXCEPT !.files["/a"] = @ \cup {f}]
  /\ UNCHANGED <<env, externalVaults, out>>

\* readVaultNotes(vault) for the k-th vault of the registry
ReadNotes(k) ==
  /\ out = Idle
  /\ k \in DOMAIN getAllVaults
  /\ out' = [op |-> "read", ok |-> TRUE, vault |-> getAllVaults[k],
             files |-> getMarkdownFiles(getAllVaults[k].path),
             notes |-> readVaultNotes(getAllVaults[k])]
  /\ UNCHANGED <<env, externalVaults, fs>>

\* where the handling of a file can throw inside parseNoteFile
FaultPoints == {"readFile", "stat", "parse"}

\* a file of a vault becomes one whose reading or parsing fails
BreakFile(r, f, at) ==
  /\ out = Idle
  /\ f \in fs.files[r]
  /\ Cardinality(fs.faults) < MaxFaults
  /\ \A x \in fs.faults : ~(x.root = r /\ x.file = f)
  /\ fs' = [fs EXCEPT !.faults = @ \cup {[root |-> r, file |-> f, at |-> at]}]
  /\ UNCHANGED <<env, externalVaults, out>>

\* the searches made over vaults with failing files
FaultQueries ==
  {q \in Queries :
     /\ ~q.options.vaults.def /\ ~q.options.limit.def
     /\ \/ SetOptions(q) = {}
        \/ q.options.tags = Some(<< <<"f","i","n">> >>)
        \/ q.query = <<"L","O">> /\ q.options.includeContent /\ ~q.options.tags.def}

NextFault ==
  \/ \E r \in Roots, f \in FileIds : WriteFile(r, f)
  \/ \E r \in Roots, f \in FileIds, at \in FaultPoints : BreakFile(r, f, at)
  \/ \E k \in 1..3 : ReadNotes(k)
  \/ \E q \in FaultQueries : Search(q)
  \/ BuildIndex
  \/ Return

\* vaults with files whose reading or parsing fails
SpecFault == Init /\ [][NextFault]_vars

\* the characters of the enumerated documents
DocAlphabet == {"#", " ", "\n", "a", "B"}

\* every text of at most MaxDocLen characters
ShortDocuments == UNION {[1..n -> DocAlphabet] : n \in 0..MaxDocLen}

FrontmatterAB ==
  <<"-","-","-","\n","t","a","g","s",":"," ","[","\"","a","\"",",","\"","b","\"","]",
    "\n","-","-","-">>
InlineAB == <<"#","a"," ","#","b">>
PlainText == <<"m","o","r","e">>

\* documents whose tags come from the front-matter line tags: ["a","b"]
FrontmatterDocuments ==
  { FrontmatterAB, FrontmatterAB \o <<"\n">>, FrontmatterAB \o <<"\n">> \o PlainText }

\* documents whose tags come from the inline text #a #b
InlineDocuments ==
  { InlineAB, InlineAB \o <<"\n">>, InlineAB \o <<"\n">> \o PlainText,
    PlainText \o <<"\n">> \o InlineAB }

\* the paths, below the root of a vault, of the parsed files
DocPaths == { <<"m","y","-","n","o","t","e","_","A",".","m","d">>,
              <<"d","-","1","/","x","_","y",".","m","d">> }

\* a file with some content is about to be parsed
InitParse ==
  /\ env \in EnvConfigs
  /\ env[2].name = <<"B">> /\ env[2].enabled = "true"
  /\ externalVaults = loadExternalVaults(env)
  /\ fs = [up |-> [r \in Roots |-> TRUE], files |-> [r \in Roots |-> {}],
           faults |-> {}, closed |-> {}, last |-> NoChange,
           index |-> NoIndex, rec |-> NoRecordings]
  /\ out \in [op : {"file"}, path : DocPaths,
               content : ShortDocuments \cup FrontmatterDocuments \cup InlineDocuments]

\* the note made of the file and of its front-matter
ParsedNote(file, frontmatter) ==
  [op |-> "note", path |-> file.path, content |-> file.content,
   title |-> extractTitle(file.content, file.path),
   frontmatter |-> frontmatter,
   tags |-> extractTags(file.content, frontmatter)]

\* parseNoteFile on the content read
ParseContent ==
  /\ out.op = "file"
  /\ out' = ParsedNote(out, extractFrontmatter(out.content))
  /\ UNCHANGED <<env, externalVaults, fs>>

NextParse == ParseContent

\* the parser applied to documents
SpecParse == InitParse /\ [][NextParse]_vars

\* the first of two searches runs on vaults with different names
InitRescan == Init /\ env[2].name = <<"B">>

\* the queries that are made twice
RescanQueries ==
  {q \in Queries :
     /\ ~q.options.vaults.def
     /\ \/ SetOptions(q) = {}
        \/ SetOptions(q) = {"limit"} /\ q.options.limit.v = 1
        \/ SetOptions(q) = {"tags"} /\ q.options.tags = Some(<< <<"f","i","n">> >>)
        \/ SetOptions(q) = {"text"} /\ q.query = <<"L","O">> /\ q.options.includeContent}

\* after the first search and before the second one: a file is created,
CreateBetween(r, f) ==
  /\ out.op = "search" /\ out.calls = 1 /\ fs.last = NoChange
  /\ f \notin fs.files[r]
  /\ FileCount < MaxFiles
  /\ fs' = [fs EXCEPT !.files[r] = @ \cup {f},
                      !.last = [kind |-> "create", root |-> r, file |-> f]]
  /\ UNCHANGED <<env, externalVaults, out>>

\* a file is deleted,
DeleteBetween(r, f) ==
  /\ out.op = "search" /\ out.calls = 1 /\ fs.last = NoChange
  /\ f \in fs.files[r]
  /\ fs' = [fs EXCEPT !.files[r] = @ \ {f},
                      !.last = [kind |-> "delete", root |-> r, file |-> f]]
  /\ UNCHANGED <<env, externalVaults, out>>

\* or a file is modified
ModifyBetween(r, f) ==
  /\ out.op = "search" /\ out.calls = 1 /\ fs.last = NoChange
  /\ f \in fs.files[r]
  /\ fs' = [fs EXCEPT !.files[r] = (@ \ {f}) \cup {Revised(f)},
                      !.last = [kind |-> "modify", root |-> r, file |-> Revised(f)]]
  /\ UNCHANGED <<env, externalVaults, out>>

\* searchAllVaults is called a second time with the same query
SearchAgain ==
  /\ out.op = "search"
  /\ out.calls = 1
  /\ out' = [searchAllVaults(out.query, out.options) EXCEPT !.calls = 2]
  /\ UNCHANGED <<env, externalVaults, fs>>

NextRescan ==
  \/ \E r \in Roots, f \in FileIds : WriteFile(r, f)
  \/ \E q \in RescanQueries : Search(q)
  \/ \E r \in Roots, f \in FileIds : CreateBetween(r, f)
  \/ \E r \in Roots, f \in FileIds : DeleteBetween(r, f)
  \/ \E r \in Roots, f \in FileIds : ModifyBetween(r, f)
  \/ SearchAgain

\* two searches with the same query and a change of the files between them
SpecRescan == InitRescan /\ [][NextRescan]_vars

\* the time of the model's clock when the index command runs
Now == 12 + fs.index.runs

\* writeFile(indexPath, indexContent): it fails when the directory of the
\* primary vault does not exist, and is not reached when the index threw
WriteIndex(index) ==
  IF index.ok /\ fs.up[GhostVaultPath]
  THEN [fs EXCEPT !.files[GhostVaultPath] = @ \cup {IndexId},
                  !.index = [content |-> IndexContent(index, Now),
                             mtime |-> Now, runs |-> @.runs + 1]]
  ELSE fs

\* vaults index: a new manager is constructed, the index is generated and
\* shown, and the index document is written into the primary vault
IndexCommand ==
  /\ out = Idle \/ out.op = "index"
  /\ fs.index.runs < MaxIndexRuns
  /\ externalVaults' = loadExternalVaults(env)
  /\ out' = generateCrossVaultIndex
  /\ fs' = WriteIndex(out')
  /\ UNCHANGED env

NextIndex ==
  \/ \E r \in Roots, f \in FileIds : WriteFile(r, f)
  \/ \E r \in Roots, b \in BOOLEAN : SetReachable(r, b)
  \/ IndexCommand

\* the index command run again and again on vaults that do not change
SpecIndex == Init /\ [][NextIndex]_vars

\* the indexes i of the VAULT_i_* entries that .env.vaults sets: the first,
\* one after a gap, the last of the loop and the first beyond it
ConfigIndices == {1, 3, MaxVaultIndex, MaxVaultIndex + 1}

\* process.env after dotenv.config of a .env.vaults with two entries at
\* any two of these indexes
GappedEnvConfigs ==
  { (i :> [name |-> <<"A">>, path |-> "/a", enabled |-> "true"]) @@
    (j :> [name |-> <<"B">>, path |-> "/b", enabled |-> en]) :
      <<i, j>> \in {x \in ConfigIndices \X ConfigIndices : x[1] # x[2]},
      en \in {"true", "false"} }

InitConfig ==
  /\ env \in GappedEnvConfigs
  /\ externalVaults = loadExternalVaults(env)
  /\ fs = [up |-> [r \in Roots |-> TRUE], files |-> [r \in Roots |-> {}],
           faults |-> {}, closed |-> {}, last |-> NoChange,
           index |-> NoIndex, rec |-> NoRecordings]
  /\ out = Idle

\* the queries that reach every vault: no vault filter
ConfigQueries ==
  {q \in Queries : ~q.options.vaults.def /\ Cardinality(SetOptions(q)) <= 1}

NextConfig ==
  \/ \E r \in Roots, f \in FileIds : WriteFile(r, f)
  \/ \E r \in Roots, b \in BOOLEAN : SetReachable(r, b)
  \/ \E q \in ConfigQueries : Search(q)
  \/ BuildIndex
  \/ Return

\* search and index under configurations whose numbering has gaps and
\* goes beyond ten
SpecConfig == InitConfig /\ [][NextConfig]_vars

\* a text search for a word of the front-matter, with and without the
\* --content flag
FrontQueries ==
  { [query |-> <<"t", "a", "g", "s">>,
     options |-> [includeContent |-> c, tags |-> Undefined,
                  vaults |-> Undefined, limit |-> NoLimit]] : c \in BOOLEAN }

NextFront ==
  \/ \E r \in Roots, f \in FileIds : WriteFile(r, f)
  \/ \E r \in Roots, f \in FileIds : DeleteFile(r, f)
  \/ \E r \in Roots, b \in BOOLEAN : SetReachable(r, b)
  \/ \E q \in FrontQueries : Search(q)
  \/ Return

\* searches for text that some documents hold in their front-matter only
SpecFront == Init /\ [][NextFront]_vars

\* how many directories cannot be opened at a time
MaxClosed == 1

\* files of the tree: in the root, in a directory, in a directory of that
\* directory, and in a second directory of the root
NestedIds == {Len(FileCatalog) + MaxNotes + k : k \in {1, 2, 3, 8}}

\* the directories of these files
NestedDirs == {File(f).dir : f \in NestedIds}

\* a directory of a vault, or the root of the vault itself after
\* access(vault.path) succeeded, becomes one that readdir cannot open
CloseDir(r, d) ==
  /\ out = Idle
  /\ Cardinality(fs.closed) < MaxClosed
  /\ [root |-> r, dir |-> d] \notin fs.closed
  /\ \E f \in fs.files[r] : IsPrefix(d, File(f).dir)
  /\ fs' = [fs EXCEPT !.closed = @ \cup {[root |-> r, dir |-> d]}]
  /\ UNCHANGED <<env, externalVaults, out>>

\* the search without any option
PlainQuery ==
  [query |-> <<>>,
   options |-> [includeContent |-> FALSE, tags |-> Undefined,
                vaults |-> Undefined, limit |-> NoLimit]]

NextClosed ==
  \/ \E r \in Roots, f \in NestedIds : WriteFile(r, f)
  \/ \E r \in Roots, d \in NestedDirs : CloseDir(r, d)
  \/ \E k \in 1..3 : ReadNotes(k)
  \/ Search(PlainQuery)
  \/ BuildIndex
  \/ Return

\* directory trees with a directory that cannot be opened
SpecClosed == Init /\ [][NextClosed]_vars

\* how many lines the enumerated documents with front-matter have
MaxMatterLines == 4

Delimiter == <<"-","-","-">>

\* the lines such a document is made of: the delimiter, two well-formed
\* lines, a malformed one, a rule of four dashes and a line whose key is
\* __proto__
MatterLines ==
  { Delimiter, <<"a",":"," ","1">>, <<"b",":"," ","x">>, <<"b">>,
    <<"-","-","-","-">>, ProtoName \o <<":"," ","1">> }

RECURSIVE JoinLines(_)
JoinLines(lines) ==
  IF Len(lines) = 1 THEN lines[1]
  ELSE lines[1] \o <<"\n">> \o JoinLines(Tail(lines))

\* every document of at most MaxMatterLines of these lines
MatterDocuments ==
  UNION { {JoinLines(ls) : ls \in [1..n -> MatterLines]} : n \in 1..MaxMatterLines }

\* a file with such a content is about to be parsed
InitMatter ==
  /\ env \in EnvConfigs
  /\ env[2].name = <<"B">> /\ env[2].enabled = "true"
  /\ externalVaults = loadExternalVaults(env)
  /\ fs = [up |-> [r \in Roots |-> TRUE], files |-> [r \in Roots |-> {}],
           faults |-> {}, closed |-> {}, last |-> NoChange,
           index |-> NoIndex, rec |-> NoRecordings]
  /\ out \in [op : {"file"}, path : {<<"n",".","m","d">>}, content : MatterDocuments]

NextMatter == ParseContent

\* the parser applied to documents built of front-matter lines
SpecMatter == InitMatter /\ [][NextMatter]_vars

\* the calls that run at the same time on one manager: two searches and
\* the index
CallKinds == {"plain", "tagged", "index"}

TaggedQuery ==
  [query |-> <<>>,
   options |-> [includeContent |-> FALSE, tags |-> Some(<< <<"f","i","n">> >>),
                vaults |-> Undefined, limit |-> NoLimit]]

CallQuery(kind) == IF kind = "tagged" THEN TaggedQuery ELSE PlainQuery

\* a call that has not yet reached its loop: the vaults it will visit and
\* its own empty allNotes and topicIndex
StartedCall(kind) ==
  [kind |-> kind, query |-> CallQuery(kind).query,
   options |-> CallQuery(kind).options,
   vaults |-> IF kind = "index" THEN getAllVaults
              ELSE VaultsToSearch(CallQuery(kind).options),
   allNotes |-> <<>>, idx |-> NewTopicIndex, done |-> FALSE, result |-> Idle]

\* an array of notes that all running calls push to
SharedNotes(calls, i) ==
  IF Len(calls[1].allNotes) >= Len(calls[2].allNotes)
  THEN calls[1].allNotes ELSE calls[2].allNotes

\* const allNotes = [] is local to the call: the notes the call itself
\* has pushed so far
OwnNotes(calls, i) == calls[i].allNotes

\* one turn of the loop over the vaults, up to its last await
VisitVault(call, notes, ok, own) ==
  [call EXCEPT !.vaults = Tail(@),
               !.allNotes = own \o notes,
               !.idx = IF ok /\ call.kind = "index" THEN IndexNotes(@, notes) ELSE @]

\* after the loop: filter, sort and limit, or sort, cut and statistics
FinishCall(call) ==
  [call EXCEPT !.done = TRUE,
               !.result = IF call.kind = "index"
                          THEN IndexResult(call.allNotes, call.idx)
                          ELSE SearchTagged(call.query, call.options, call.allNotes)]

\* two calls are made on a new manager without awaiting the first
StartCalls(k1, k2) ==
  /\ out = Idle
  /\ externalVaults' = loadExternalVaults(env)
  /\ out' = [op |-> "calls", ok |-> TRUE,
             calls |-> <<StartedCall(k1), StartedCall(k2)>>]
  /\ UNCHANGED <<env, fs>>

\* the event loop resumes call i at its await
StepCall(i) ==
  /\ out.op = "calls"
  /\ ~out.calls[i].done
  /\ out' = [out EXCEPT !.calls[i] =
       IF @.vaults = <<>> THEN FinishCall(@)
       ELSE VisitVault(@,
              IF validateVault(Head(@.vaults))
              THEN readVaultNotes(Head(@.vaults)) ELSE <<>>,
              validateVault(Head(@.vaults)),
              OwnNotes(out.calls, i))]
  /\ UNCHANGED <<env, externalVaults, fs>>

\* the files of these runs: fin-log.md and legal.md
CallFileIds ==
  {f \in FileIds : FileCatalog[f].name \in {<<"f","i","n","-","l","o","g",".","m","d">>,
                                           <<"l","e","g","a","l",".","m","d">>}}

NextCalls ==
  \/ \E r \in Roots, f \in CallFileIds : WriteFile(r, f)
  \/ \E k1 \in CallKinds \ {"index"}, k2 \in CallKinds : StartCalls(k1, k2)
  \/ \E i \in 1..2 : StepCall(i)
  \/ Return

\* calls interleaved at their awaits over files that do not change
SpecCalls == Init /\ [][NextCalls]_vars

-----------------------------------------------------------------------------
(* The client of the recording API                                         *)

\* a number that may be NaN
NaN == [nan |-> TRUE, n |-> 0]
Num(n) == [nan |-> FALSE, n |-> n]
TruthyNum(x) == ~x.nan /\ x.n # 0

\* an optional number that is not set
NoNumber == [def |-> FALSE, v |-> 0]
NoRetry == [def |-> FALSE, v |-> NaN]

RECURSIVE DigitsValue(_, _)
\* the value of a run of decimal digits; acc: the value so far
DigitsValue(s, acc) ==
  IF s = <<>> THEN acc
  ELSE DigitsValue(Tail(s),
         acc * 10 + (CHOOSE d \in 0..9 : DigitSeq[d + 1] = Head(s)))

\* parseInt(s, 10) on a text of digits and letters: the value of the
\* leading digits, NaN when there is none
parseInt(s) ==
  IF RunEnd(s, 1, Digit) = 0 THEN NaN
  ELSE Num(DigitsValue(SubSeq(s, 1, RunEnd(s, 1, Digit)), 0))

\* the answers of the server: a status, the retry-after header and the
\* message member of a body that is an object
Statuses == {200, 401, 404, 429, 500}
RetryAfterHeaders == {Undefined, Some(<<"0">>), Some(<<"7">>), Some(<<"3","0">>),
                      Some(<<"s","o","o","n">>)}
BodyMessages == {Undefined, Some(<<"server says no">>)}

\* no answer at all: error.response is undefined
NoResponse == [status |-> 0, retryAfter |-> Undefined, message |-> Undefined]

Responses ==
  {NoResponse} \cup
  [status : Statuses, retryAfter : RetryAfterHeaders, message : BodyMessages]

\* the message of the AxiosError
AxiosMessage(response) ==
  IF response = NoResponse THEN <<"Network Error">>
  ELSE <<"Request failed with status code ", Digits(response.status)>>

\* `Rate limit exceeded. Retry after ${apiError.retryAfter || 'a few'} seconds.`
RateLimitMessage(retryAfter) ==
  <<"Rate limit exceeded. Retry after ",
    IF retryAfter.def /\ TruthyNum(retryAfter.v)
    THEN Digits(retryAfter.v.n) ELSE <<"a", " ", "f", "e", "w">>,
    " seconds.">>

\* if (retryAfter) apiError.retryAfter = parseInt(retryAfter, 10)
RetryAfterOf(header) ==
  IF header.def /\ header.v # <<>> THEN Some(parseInt(header.v)) ELSE NoRetry

\* The rejection handler of the response interceptor: the ApiError it
\* throws is an object literal, so it is no instance of Error.
Interceptor(response) ==
  IF response = NoResponse
  THEN [isError |-> FALSE, message |-> AxiosMessage(response),
        status |-> NoNumber, retryAfter |-> NoRetry]
  ELSE [isError |-> FALSE,
        message |->
          IF response.status = 429
            THEN RateLimitMessage(RetryAfterOf(response.retryAfter))
          ELSE IF response.status = 401
            THEN <<"Invalid API key. Please check your credentials.">>
          ELSE IF response.status = 404 THEN <<"Resource not found.">>
          ELSE IF response.message.def THEN response.message.v
          ELSE AxiosMessage(response),
        status |-> Some(response.status),
        retryAfter |-> IF response.status = 429
                       THEN RetryAfterOf(response.retryAfter) ELSE NoRetry]

\* LimitlessClient.handleError: error instanceof Error && 'message' in error
ClientHandleError(error) ==
  IF error.isError THEN error
  ELSE [isError |-> FALSE, message |-> <<"An unexpected error occurred">>,
        status |-> NoNumber, retryAfter |-> NoRetry]

\* handleError of the command line: the branch it takes before it exits
handleError(error) ==
  IF error.retryAfter.def /\ TruthyNum(error.retryAfter.v) THEN "rate limit"
  ELSE IF error.status = Some(401) THEN "invalid API key"
  ELSE "error"

ClientMethods == {"searchLifelogs", "getLifelog", "deleteLifelog"}

\* a command calls a method of the client, which sends its request
CallClient(m) ==
  /\ out = Idle
  /\ out' = [op |-> "client", ok |-> TRUE, stage |-> "sent", method |-> m]
  /\ UNCHANGED <<env, externalVaults, fs>>

\* the server answers: a 2xx answer is returned; any other, or none, goes
\* through the interceptor and the catch of the method
Answer(response) ==
  /\ out.op = "client" /\ out.stage = "sent"
  /\ out' = IF response # NoResponse /\ response.status = 200
            THEN [out EXCEPT !.stage = "returned"]
            ELSE [op |-> "client", ok |-> FALSE, stage |-> "thrown",
                  method |-> out.method, response |-> response,
                  error |-> ClientHandleError(Interceptor(response))]
  /\ UNCHANGED <<env, externalVaults, fs>>

\* the catch of the command: handleError(error), then process.exit(1)
CommandCatch ==
  /\ out.op = "client" /\ out.stage = "thrown"
  /\ out' = [out EXCEPT !.stage = "exit"] @@ [branch |-> handleError(out.error)]
  /\ UNCHANGED <<env, externalVaults, fs>>

\* the largest maxResults of the model
MaxResults == 11

\* the most items the API gives per page
PageCap == 10

\* the limit of searchLifelogs when the caller names none
DefaultLimit == 3

\* every page is asked for the cap, whatever is still missing
PageLimitFixed(remaining) == PageCap

\* const limit = Math.min(remaining, 10)
PageLimit(remaining) == Min({remaining, PageCap})

\* searchLifelogs: limit: Math.min(params.limit || 3, 10)
RequestLimit(limit) == Min({IF limit # 0 THEN limit ELSE DefaultLimit, PageCap})

\* the lifelogs of the k-th page the server sends, n of them
PageItems(k, n) == [j \in 1..n |-> [page |-> k, item |-> j]]

\* getAllLifelogs(params, maxResults) up to the test of its loop
StartPages(m) ==
  /\ out = Idle
  /\ out' = [op |-> "pages", ok |-> TRUE, maxResults |-> m,
             requests |-> <<>>, pages |-> <<>>, allLifelogs |-> <<>>,
             totalFetched |-> 0, cursor |-> NoNumber, done |-> ~(0 < m)]
  /\ UNCHANGED <<env, externalVaults, fs>>

\* the state after the answer to the request sent with the limit: the
\* answer is pushed, the cursor is kept, and the loop is left on a page
\* without cursor or without items, or when enough is fetched
Fetched(call, limit, items, next) ==
  [call EXCEPT !.requests = Append(@, [cursor |-> call.cursor, limit |-> limit]),
               !.pages = Append(@, [items |-> items, next |-> next]),
               !.allLifelogs = @ \o items,
               !.totalFetched = @ + Len(items),
               !.cursor = next,
               !.done = \/ ~next.def
                        \/ Len(items) = 0
                        \/ ~(call.totalFetched + Len(items) < call.maxResults)]

\* one turn of the loop: the server sends n items, at most as many as were
\* asked for, with a next cursor or without
FetchPage(n, more) ==
  /\ out.op = "pages" /\ ~out.done
  /\ n <= RequestLimit(PageLimit(out.maxResults - out.totalFetched))
  /\ out' = Fetched(out, RequestLimit(PageLimit(out.maxResults - out.totalFetched)),
                    PageItems(Len(out.pages) + 1, n),
                    IF more THEN Some(Len(out.pages) + 1) ELSE NoNumber)
  /\ UNCHANGED <<env, externalVaults, fs>>

\* one turn of the loop in which the request fails: searchLifelogs throws
\* and getAllLifelogs with it
PageFails(response) ==
  /\ out.op = "pages" /\ ~out.done
  /\ out' = [out EXCEPT !.ok = FALSE, !.done = TRUE,
               !.requests = Append(@, [cursor |-> out.cursor,
                  limit |-> RequestLimit(PageLimit(out.maxResults - out.totalFetched))])]
  /\ UNCHANGED <<env, externalVaults, fs>>

\* the method has returned or thrown to its caller, or the process is gone
ClientReturn ==
  /\ \/ out.op = "client" /\ out.stage \in {"returned", "exit"}
     \/ out.op = "pages" /\ out.done
  /\ out' = Idle
  /\ UNCHANGED <<env, externalVaults, fs>>

FetchTurn ==
  \/ \E n \in 0..PageCap, more \in BOOLEAN : FetchPage(n, more)
  \/ \E response \in {NoResponse} : PageFails(response)

NextClient ==
  \/ \E m \in ClientMethods : CallClient(m)
  \/ \E response \in Responses : Answer(response)
  \/ CommandCatch
  \/ \E m \in 0..MaxResults : StartPages(m)
  \/ FetchTurn
  \/ ClientReturn

\* the client and the command line on top of it
SpecClient == Init /\ [][NextClient]_vars

\* the server answers every request in the end
SpecClientLive == SpecClient /\ WF_vars(FetchTurn)

\* the vaults have different names
InitRace == Init /\ env[2].name = <<"B">>

\* generateCrossVaultIndex up to its last statement but one: the loop over
\* the vaults has read the notes and filled the topic index; included: the
\* names of the vaults that validated in the loop
IndexLoopDone ==
  /\ out = Idle
  /\ externalVaults' = loadExternalVaults(env)
  /\ out' = [op |-> "indexing", ok |-> TRUE,
             allNotes |-> ScanVaults(getAllVaults),
             idx |-> IndexVaults(NewTopicIndex, getAllVaults),
             included |-> {v.name : v \in {x \in Range(getAllVaults) : validateVault(x)}}]
  /\ UNCHANGED <<env, fs>>

\* while the call waits, another process creates a file,
CreateDuring(r, f) ==
  /\ out.op = "indexing" /\ fs.last = NoChange
  /\ f \notin fs.files[r]
  /\ fs' = [fs EXCEPT !.files[r] = @ \cup {f},
                      !.last = [kind |-> "create", root |-> r, file |-> f]]
  /\ UNCHANGED <<env, externalVaults, out>>

\* deletes one,
DeleteDuring(r, f) ==
  /\ out.op = "indexing" /\ fs.last = NoChange
  /\ f \in fs.files[r]
  /\ fs' = [fs EXCEPT !.files[r] = @ \ {f},
                      !.last = [kind |-> "delete", root |-> r, file |-> f]]
  /\ UNCHANGED <<env, externalVaults, out>>

\* or makes a root unreachable
UnmountDuring(r) ==
  /\ out.op = "indexing" /\ fs.last = NoChange
  /\ fs.up[r]
  /\ fs' = [fs EXCEPT !.up[r] = FALSE,
                      !.last = [kind |-> "unmount", root |-> r, file |-> 0]]
  /\ UNCHANGED <<env, externalVaults, out>>

\* the rest of generateCrossVaultIndex: sort, cut, await getVaultStats(),
\* which reads every vault again, and return
IndexStatsDone ==
  /\ out.op = "indexing"
  /\ out' = IndexResult(out.allNotes, out.idx) @@ [included |-> out.included]
  /\ UNCHANGED <<env, externalVaults, fs>>

NextRace ==
  \/ \E r \in Roots, f \in FileIds : WriteFile(r, f)
  \/ IndexLoopDone
  \/ \E r \in Roots, f \in FileIds : CreateDuring(r, f)
  \/ \E r \in Roots, f \in FileIds : DeleteDuring(r, f)
  \/ \E r \in Roots : UnmountDuring(r)
  \/ IndexStatsDone
  \/ Return

\* the index is generated while the files change
SpecRace == InitRace /\ [][NextRace]_vars

-----------------------------------------------------------------------------
(* The import of recordings                                                *)

\* characters of the recording note outside Basic Latin
Bulb == "<bulb>"

\* the grave accent
Tick == "<tick>"

Chain == "<chain>"
Star == "<star>"

\* const topicKeywords, in the order of its entries
TopicKeywords == <<
  [topic |-> <<"B", "u", "s", "i", "n", "e", "s", "s">>,
   keywords |-> <<
      <<"b", "u", "s", "i", "n", "e", "s", "s">>,
      <<"v", "e", "n", "t", "u", "r", "e">>,
      <<"e", "n", "t", "r", "e", "p", "r", "e", "n", "e", "u", "r">>,
      <<"s", "t", "a", "r", "t", "u", "p">>,
      <<"r", "e", "v", "e", "n", "u", "e">>,
      <<"p", "r", "o", "f", "i", "t">> >>],
  [topic |-> <<"A", "I">>,
   keywords |-> <<
      <<"a", "i">>,
      <<"a", "r", "t", "i", "f", "i", "c", "i", "a", "l", " ", "i", "n", "t",
        "e", "l", "l", "i", "g", "e", "n", "c", "e">>,
      <<"m", "a", "c", "h", "i", "n", "e", " ", "l", "e", "a", "r", "n", "i",
        "n", "g">>,
      <<"a", "u", "t", "o", "m", "a", "t", "i", "o", "n">>,
      <<"c", "h", "a", "t", "b", "o", "t">> >>],
  [topic |-> <<"M", "a", "r", "k", "e", "t", "i", "n", "g">>,
   keywords |-> <<
      <<"m", "a", "r", "k", "e", "t", "i", "n", "g">>,
      <<"s", "a", "l", "e", "s">>,
      <<"l", "e", "a", "d">>,
      <<"c", "u", "s", "t", "o", "m", "e", "r">>,
      <<"c", "o", "n", "v", "e", "r", "s", "i", "o", "n">> >>],
  [topic |-> <<"T", "e", "c", "h", "n", "o", "l", "o", "g", "y">>,
   keywords |-> <<
      <<"s", "o", "f", "t", "w", "a", "r", "e">>,
      <<"a", "p", "p">>,
      <<"w", "e", "b", "s", "i", "t", "e">>,
      <<"c", "o", "d", "e">>,
      <<"d", "e", "v", "e", "l", "o", "p", "m", "e", "n", "t">>,
      <<"a", "p", "i">> >>],
  [topic |-> <<"M", "e", "e", "t", "i", "n", "g">>,
   keywords |-> <<
      <<"m", "e", "e", "t", "i", "n", "g">>,
      <<"c", "a", "l", "l">>,
      <<"d", "i", "s", "c", "u", "s", "s", "i", "o", "n">>,
      <<"c", "l", "i", "e", "n", "t">>,
      <<"t", "e", "a", "m">> >>],
  [topic |-> <<"I", "d", "e", "a", "s">>,
   keywords |-> <<
      <<"i", "d", "e", "a">>,
      <<"c", "o", "n", "c", "e", "p", "t">>,
      <<"p", "l", "a", "n">>,
      <<"s", "t", "r", "a", "t", "e", "g", "y">>,
      <<"v", "i", "s", "i", "o", "n">> >>],
  [topic |-> <<"C", "o", "n", "t", "e", "n", "t">>,
   keywords |-> <<
      <<"c", "o", "n", "t", "e", "n", "t">>,
      <<"v", "i", "d", "e", "o">>,
      <<"p", "o", "d", "c", "a", "s", "t">>,
      <<"b", "l", "o", "g">>,
      <<"s", "o", "c", "i", "a", "l", " ", "m", "e", "d", "i", "a">> >>],
  [topic |-> <<"L", "e", "a", "d", " ", "G", "e", "n", "e", "r", "a", "t", "i", "o", "n">>,
   keywords |-> <<
      <<"l", "e", "a", "d", " ", "g", "e", "n", "e", "r", "a", "t", "i", "o",
        "n">>,
      <<"l", "e", "a", "d", "s">>,
      <<"p", "r", "o", "s", "p", "e", "c", "t", "s">>,
      <<"a", "u", "t", "o", "m", "a", "t", "i", "o", "n">> >>],
  [topic |-> <<"P", "r", "o", "d", "u", "c", "t", "i", "v", "i", "t", "y">>,
   keywords |-> <<
      <<"p", "r", "o", "d", "u", "c", "t", "i", "v", "i", "t", "y">>,
      <<"e", "f", "f", "i", "c", "i", "e", "n", "c", "y">>,
      <<"w", "o", "r", "k", "f", "l", "o", "w">>,
      <<"s", "y", "s", "t", "e", "m">> >>],
  [topic |-> <<"L", "e", "a", "r", "n", "i", "n", "g">>,
   keywords |-> <<
      <<"l", "e", "a", "r", "n">>,
      <<"s", "t", "u", "d", "y">>,
      <<"r", "e", "s", "e", "a", "r", "c", "h">>,
      <<"k", "n", "o", "w", "l", "e", "d", "g", "e">>,
      <<"e", "d", "u", "c", "a", "t", "i", "o", "n">> >>] >>

\* the most topics a recording gets
TopicCap == 5

\* the longest cleaned title in a file name
TitleCap == 60

\* lifelog.markdown || fallback
MarkdownOr(lifelog, fallback) ==
  IF lifelog.markdown.def /\ lifelog.markdown.v # <<>> THEN lifelog.markdown.v
  ELSE fallback

\* the topics whose keywords occur in the text, in the order of the table
MatchedTopics(content) ==
  SelectSeq(TopicKeywords,
            LAMBDA e : \E k \in DOMAIN e.keywords : includes(content, e.keywords[k]))

\* extractTopics
extractTopics(lifelog) ==
  LET matched == MatchedTopics(toLowerCase(lifelog.title \o <<" ">> \o
                                           MarkdownOr(lifelog, <<>>)))
  IN  slice0([i \in DOMAIN matched |-> matched[i].topic], TopicCap)

TwoDigits(n) == IF n < 10 THEN <<"0">> \o Digits(n) ELSE Digits(n)

\* the time zones of the process, in hours east of UTC
Zones == {0, 1}

\* Times are minutes after 2026-01-01T00:00 UTC.
\* date.toISOString().split('T')[0]: the day in UTC
DateStr(t) == <<"2", "0", "2", "6", "-", "0", "1", "-", "0", "1">>

\* date.toTimeString().split(' ')[0].replace(/:/g, '-'): the time of day in
\* the time zone of the process
TimeStr(t, zone) == TwoDigits(zone) \o <<"-">> \o TwoDigits(t) \o <<"-", "0", "0">>

\* date.toISOString()
toISOString(t) ==
  <<"2", "0", "2", "6", "-", "0", "1", "-", "0", "1", "T", "0", "0", ":">> \o TwoDigits(t) \o <<":", "0", "0", ".", "0", "0", "0", "Z">>

RECURSIVE CollapseSpaces(_)
\* .replace(/\s+/g, ' ')
CollapseSpaces(s) ==
  IF s = <<>> THEN <<>>
  ELSE IF s[1] \in WhiteSpace
  THEN <<" ">> \o CollapseSpaces(SubSeq(s, RunEnd(s, 1, WhiteSpace) + 1, Len(s)))
  ELSE SubSeq(s, 1, RunEndNot(s, 1, WhiteSpace))
       \o CollapseSpaces(SubSeq(s, RunEndNot(s, 1, WhiteSpace) + 1, Len(s)))

\* cleanTitle: .replace(/[^\w\s-]/g, '').replace(/\s+/g, ' ').trim()
\* .substring(0, 60)
CleanTitle(title) ==
  slice0(trim(CollapseSpaces(
           SelectSeq(title, LAMBDA c : c \in WordChar \cup WhiteSpace \cup {"-"}))),
         TitleCap)

\* generateObsidianFilename
generateObsidianFilename(lifelog) ==
  DateStr(lifelog.startTime) \o <<" ">> \o TimeStr(lifelog.startTime, fs.rec.zone)
    \o <<" ", "-", " ">>
    \o CleanTitle(lifelog.title) \o DotMd

RECURSIVE JoinWith(_, _)
\* Array.prototype.join
JoinWith(parts, sep) ==
  IF parts = <<>> THEN <<>>
  ELSE IF Len(parts) = 1 THEN parts[1]
  ELSE parts[1] \o sep \o JoinWith(Tail(parts), sep)

BoolText(b) == IF b THEN <<"t", "r", "u", "e">> ELSE <<"f", "a", "l", "s", "e">>

\* the frontmatter template of formatAsObsidianNote
NoteFrontmatter(lifelog, topics, minutes) ==
  <<"-", "-", "-", "\n", "t", "y", "p", "e", ":", " ", "r", "e", "c", "o", "r", "d", "i", "n", "g", "\n", "d", "a", "t", "e", ":", " ">> \o toISOString(lifelog.startTime)
  \o <<"\n", "d", "u", "r", "a", "t", "i", "o", "n", ":", " ">> \o Digits(minutes)
  \o <<"\n", "i", "d", ":", " ">> \o lifelog.id
  \o <<"\n", "s", "t", "a", "r", "r", "e", "d", ":", " ">> \o BoolText(lifelog.isStarred)
  \o <<"\n", "s", "o", "u", "r", "c", "e", ":", " ", "l", "i", "m", "i", "t", "l", "e", "s", "s", "\n", "t", "o", "p", "i", "c", "s", ":", " ", "[">>
  \o JoinWith([i \in DOMAIN topics |-> <<"\"">> \o topics[i] \o <<"\"">>], <<",", " ">>)
  \o <<"]", "\n", "t", "a", "g", "s", ":", " ", "[", "r", "e", "c", "o", "r", "d", "i", "n", "g", ",", " ">>
  \o JoinWith(topics, <<",", " ">>)
  \o (IF lifelog.isStarred THEN <<",", " ", "s", "t", "a", "r", "r", "e", "d">> ELSE <<>>)
  \o <<"]", "\n", "-", "-", "-", "\n", "\n">>

\* the content template of formatAsObsidianNote; the dates are printed as
\* toLocaleString prints the days of the model
NoteBody(lifelog, topics, minutes, now) ==
  <<"#", " ">> \o lifelog.title
  \o <<"\n", "\n", "#", "#", " ">> \o <<Chart>> \o <<" ", "R", "e", "c", "o", "r", "d", "i", "n", "g", " ", "D", "e", "t", "a", "i", "l", "s", "\n", "-", " ", "*", "*", "D", "a", "t", "e", ":", "*", "*", " ">>
  \o LocaleString(1)
  \o <<"\n", "-", " ", "*", "*", "D", "u", "r", "a", "t", "i", "o", "n", ":", "*", "*", " ">> \o Digits(minutes) \o <<" ", "m", "i", "n", "u", "t", "e", "s">>
  \o <<"\n", "-", " ", "*", "*", "R", "e", "c", "o", "r", "d", "i", "n", "g", " ", "I", "D", ":", "*", "*", " ", Tick>> \o lifelog.id \o <<Tick>>
  \o <<"\n", "-", " ", "*", "*", "S", "t", "a", "r", "r", "e", "d", ":", "*", "*", " ">>
  \o (IF lifelog.isStarred THEN <<Star>> \o <<" ", "Y", "e", "s">> ELSE <<"N", "o">>)
  \o <<"\n", "\n", "#", "#", " ">> \o <<Label>> \o <<" ", "T", "o", "p", "i", "c", "s", "\n">>
  \o JoinWith([i \in DOMAIN topics |-> <<"-", " ", "[", "[">> \o topics[i] \o <<"]", "]">>],
              <<"\n">>)
  \o <<"\n", "\n", "-", "-", "-", "\n", "\n">>
  \o MarkdownOr(lifelog, <<"N", "o", " ", "t", "r", "a", "n", "s", "c", "r", "i", "p", "t", " ", "a", "v", "a", "i", "l", "a", "b", "l", "e", ".">>)
  \o <<"\n", "\n", "-", "-", "-", "\n", "\n", "#", "#", " ">> \o <<Bulb>> \o <<" ", "P", "o", "t", "e", "n", "t", "i", "a", "l", " ", "A", "c", "t", "i", "o", "n", "s", "\n">>
  \o <<"-", " ", "[", " ", "]", " ", "E", "x", "t", "r", "a", "c", "t", " ", "k", "e", "y", " ", "i", "n", "s", "i", "g", "h", "t", "s", " ", "t", "o", " ", "s", "e", "p", "a", "r", "a", "t", "e", " ", "n", "o", "t", "e", "s", "\n">>
  \o <<"-", " ", "[", " ", "]", " ", "L", "i", "n", "k", " ", "t", "o", " ", "r", "e", "l", "e", "v", "a", "n", "t", " ", "p", "r", "o", "j", "e", "c", "t", "s", "\n">>
  \o <<"-", " ", "[", " ", "]", " ", "C", "r", "e", "a", "t", "e", " ", "a", "c", "t", "i", "o", "n", " ", "i", "t", "e", "m", "s", "\n">>
  \o <<"-", " ", "[", " ", "]", " ", "F", "o", "l", "l", "o", "w", " ", "u", "p", " ", "o", "n", " ", "m", "e", "n", "t", "i", "o", "n", "e", "d", " ", "t", "o", "p", "i", "c", "s", "\n", "\n", "#", "#", " ">> \o <<Chain>>
  \o <<" ", "R", "e", "l", "a", "t", "e", "d", " ", "N", "o", "t", "e", "s", "\n", "<", "!", "-", "-", " ", "A", "d", "d", " ", "r", "e", "l", "a", "t", "e", "d", " ", "n", "o", "t", "e", "s", " ", "h", "e", "r", "e", " ", "-", "-", ">", "\n", "\n", "-", "-", "-", "\n", "\n">>
  \o <<"*", "R", "e", "c", "o", "r", "d", "i", "n", "g", " ", "i", "m", "p", "o", "r", "t", "e", "d", " ", "b", "y", " ", "G", "h", "o", "s", "t", " ", "A", "I", " ", "A", "s", "s", "i", "s", "t", "a", "n", "t", " ", "o", "n", " ">>
  \o LocaleString(now) \o <<"*">>

NoteOfLifelog(lifelog, topics, minutes, now) ==
  NoteFrontmatter(lifelog, topics, minutes) \o NoteBody(lifelog, topics, minutes, now)

\* formatAsObsidianNote
formatAsObsidianNote(lifelog, now) ==
  NoteOfLifelog(lifelog, extractTopics(lifelog),
                lifelog.endTime - lifelog.startTime, now)

\* how many imports are made, and how many lifelogs one import holds
MaxImports == 2
MaxBatch == 2

Mic == "<mic>"

\* this.recordingsPath
RecordingsPath == <<GhostVaultPath, "/", Mic>> \o <<" ", "R", "e", "c", "o", "r", "d", "i", "n", "g", "s">>

\* the lifelogs the API has sent: two whose titles clean to the same text,
\* one with text of more than five topics, one with a title of more than
\* sixty characters
Lifelogs ==
  { [id |-> <<"L","1">>, title |-> <<"T", "e", "a", "m", " ", "c", "a", "l", "l">>, markdown |-> Undefined,
     startTime |-> 5, endTime |-> 8, isStarred |-> FALSE],
    [id |-> <<"L","2">>, title |-> <<"T", "e", "a", "m", " ", " ", "c", "a", "l", "l", "!">>, markdown |-> Some(<<>>),
     startTime |-> 5, endTime |-> 5, isStarred |-> TRUE],
    [id |-> <<"L","3">>, title |-> <<"Q", "&", "A", ":", " ", "p", "l", "a", "n", "s">>,
     markdown |-> Some(<<"b", "u", "s", "i", "n", "e", "s", "s", " ", "a", "i", " ", "m", "a", "r", "k", "e", "t", "i", "n", "g", " ", "s", "o", "f", "t", "w", "a", "r", "e", " ", "m", "e", "e", "t", "i", "n", "g", " ", "i", "d", "e", "a">>),
     startTime |-> 7, endTime |-> 9, isStarred |-> TRUE],
    [id |-> <<"L","4">>, title |-> [i \in 1..(TitleCap + 2) |-> "x"],
     markdown |-> Undefined, startTime |-> 7, endTime |-> 9, isStarred |-> FALSE] }

\* the lists of lifelogs given to importLifelogs
Batches == UNION {[1..n -> Lifelogs] : n \in 1..MaxBatch}

\* importLifelog after ensureDirectories: the note is written under its
\* file name, over a file of that name if there is one
WriteNote(rec, lifelog, name, now) ==
  [rec EXCEPT !.files = (name :> [content |-> formatAsObsidianNote(lifelog, now),
                                  of |-> lifelog]) @@ @,
              !.written = @ \cup {<<lifelog, name>>}]

RECURSIVE ImportLoop(_, _, _, _, _)
\* The loop of importLifelogs from the k-th lifelog on.  failing: the
\* positions whose writeFile throws; the catch logs the error and the loop
\* goes on.  The value is the recordings directory and importedFiles.
ImportLoop(lifelogs, k, failing, now, acc) ==
  IF k > Len(lifelogs) THEN acc
  ELSE ImportLoop(lifelogs, k + 1, failing, now,
         IF k \in failing THEN acc
         ELSE [rec |-> WriteNote(acc.rec, lifelogs[k],
                                 generateObsidianFilename(lifelogs[k]), now),
               importedFiles |->
                 Append(acc.importedFiles,
                        RecordingsPath \o <<"/">> \o generateObsidianFilename(lifelogs[k]))])

\* the recordings directory after the import, with one import more counted
Imported(rec) == [rec EXCEPT !.imports = @ + 1]

\* importLifelogs(lifelogs); ensureDirectories creates the directories of
\* the primary vault when they are missing
ImportLifelogs(lifelogs, failing) ==
  /\ out = Idle
  /\ fs.rec.imports < MaxImports
  /\ LET done == ImportLoop(lifelogs, 1, failing, Now + fs.rec.imports,
                            [rec |-> fs.rec, importedFiles |-> <<>>])
     IN  /\ fs' = [fs EXCEPT !.up[GhostVaultPath] = TRUE,
                             !.rec = Imported(done.rec)]
         /\ out' = [op |-> "import", ok |-> TRUE, lifelogs |-> lifelogs,
                    failing |-> failing, importedFiles |-> done.importedFiles,
                    before |-> DOMAIN fs.rec.files]
  /\ UNCHANGED <<env, externalVaults>>

\* importLifelog(lifelog) called on its own: an error of writeFile is thrown
ImportLifelog(lifelog, fails) ==
  /\ out = Idle
  /\ fs.rec.imports < MaxImports
  /\ LET done == ImportLoop(<<lifelog>>, 1, IF fails THEN {1} ELSE {},
                            Now + fs.rec.imports,
                            [rec |-> fs.rec, importedFiles |-> <<>>])
     IN  /\ fs' = [fs EXCEPT !.up[GhostVaultPath] = TRUE,
                             !.rec = Imported(done.rec)]
         /\ out' = [op |-> "import", ok |-> ~fails, lifelogs |-> <<lifelog>>,
                    failing |-> IF fails THEN {1} ELSE {},
                    importedFiles |-> done.importedFiles,
                    before |-> DOMAIN fs.rec.files]
  /\ UNCHANGED <<env, externalVaults>>

\* the assistant is started again in another time zone
SetZone(zone) ==
  /\ out = Idle
  /\ zone # fs.rec.zone
  /\ fs' = [fs EXCEPT !.rec.zone = zone]
  /\ UNCHANGED <<env, externalVaults, out>>

NextImport ==
  \/ \E zone \in Zones : SetZone(zone)
  \/ \E b \in Batches : \E failing \in SUBSET DOMAIN b : ImportLifelogs(b, failing)
  \/ \E l \in Lifelogs, fails \in BOOLEAN : ImportLifelog(l, fails)
  \/ Return

\* imports of recordings into the primary vault
SpecImport == InitRace /\ [][NextImport]_vars

NextScan ==
  \/ \E f \in TreeIds : PutTreeFile(f)
  \/ \E r \in Roots, b \in BOOLEAN : SetReachable(r, b)
  \/ \E k \in 1..3 : ReadNotes(k)
  \/ Return

\* directory trees, scanned
SpecScan == Init /\ [][NextScan]_vars

NextLarge ==
  \/ \E r \in {GhostVaultPath, "/a"} : AddNote(r)
  \/ BuildIndex
  \/ BuildIndexAgain
  \/ Return

\* large corpora of numbered notes, indexed
SpecLarge == Init /\ [][NextLarge]_vars

-----------------------------------------------------------------------------
(* Notions used to state the properties                                    *)

\* a and b hold the same elements the same number of times
SameBag(a, b) ==
  \A x \in Range(a) \cup Range(b) :
    Cardinality({i \in DOMAIN a : a[i] = x}) = Cardinality({i \in DOMAIN b : b[i] = x})

\* case-insensitive substring
ContainsCI(text, part) == includes(toLowerCase(text), toLowerCase(part))

\* the term list of an optional filter
Terms(opt) == IF opt.def THEN opt.v ELSE <<>>

\* a document passes the tag filter tf (non-empty)
PassesTags(note, tf) ==
  \E tag \in Range(note.tags) : \E term \in Range(tf) : ContainsCI(tag, term)

\* a document passes the text filter
PassesText(note, query, contentSearch) ==
  \/ ContainsCI(note.title, query)
  \/ contentSearch /\ ContainsCI(note.content, query)

\* a document matches the query in its content and not in its title
ContentOnly(note, query) ==
  ContainsCI(note.content, query) /\ ~ContainsCI(note.title, query)

\* the registered vaults whose root is reachable
Registered == Range(getAllVaults)
Reachable(v) == fs.up[v.path]

\* the documents a call must see under a vault: one per file of its root
DocsUnder(v) ==
  { [vault |-> v.name, path |-> RelPath(File(f))] : f \in fs.files[v.path] }

DocId(note) == [vault |-> note.vault, path |-> note.path]

Text_x == <<"x">>
Text_y == <<"y">>
Text_z == <<"z">>
Text_Hello == <<"H","e","l","l","o">>
Text_fin == <<"f","i","n">>
Text_Finance == <<"F","i","n","a","n","c","e">>
Text_legal == <<"l","e","g","a","l">>

-----------------------------------------------------------------------------
(* Properties                                                              *)

\* C1: parsing the scenario document (file 1 of the catalog: front-matter
\* tags x and y, the heading "# Hello", the body "Body #z text") yields
\* exactly the tags x, y and z, and the title Hello.
C1_Scenario ==
  out.op \in {"search", "index"} =>
    \A i \in DOMAIN out.allNotes :
      out.allNotes[i].content = FileCatalog[1].content =>
        /\ Range(out.allNotes[i].tags) = {Text_x, Text_y, Text_z}
        /\ out.allNotes[i].title = Text_Hello

\* C2: with a non-empty tag filter, exactly the scanned documents with a tag
\* that contains a filter term (both in lower case) survive the tag step;
\* with an empty or absent filter the step drops nothing.
C2_TagStep ==
  out.op = "search" =>
    IF Terms(out.options.tags) # <<>>
    THEN out.tagged = SelectSeq(out.allNotes,
                        LAMBDA note : PassesTags(note, Terms(out.options.tags)))
    ELSE out.tagged = out.allNotes

\* C2, witness: the filter {fin} keeps a document tagged Finance and drops a
\* document tagged only legal.
C2_Witness ==
  /\ out.op = "search"
  /\ out.options.tags = Some(<<Text_fin>>)
  /\ \E i \in DOMAIN out.tagged : Text_Finance \in Range(out.tagged[i].tags)
  /\ \E i \in DOMAIN out.allNotes :
       /\ out.allNotes[i].tags = <<Text_legal>>
       /\ out.allNotes[i] \notin Range(out.tagged)

\* C3 as stated: with a non-empty query, the text step keeps exactly the
\* documents matching in the title, or in the content when content search
\* is on, and the final result is exactly the documents passing the tag
\* step and the text step.
C3_Original ==
  (out.op = "search" /\ out.query # <<>>) =>
    /\ out.texted = SelectSeq(out.tagged, LAMBDA note :
                      PassesText(note, out.query, out.options.includeContent))
    /\ SameBag(out.notes, out.texted)

\* C3 as amended: the text step is as stated; the final result holds only
\* documents passing both steps, and all of them whenever the limit does
\* not cut the result (no limit, a limit of 0, or a limit of at least their
\* number).
C3_TextStep ==
  (out.op = "search" /\ out.query # <<>>) =>
    /\ out.texted = SelectSeq(out.tagged, LAMBDA note :
                      PassesText(note, out.query, out.options.includeContent))
    /\ \A i \in DOMAIN out.notes :
         /\ out.notes[i] \in Range(out.tagged)
         /\ PassesText(out.notes[i], out.query, out.options.includeContent)
    /\ ~out.options.includeContent =>
         \A i \in DOMAIN out.notes : ~ContentOnly(out.notes[i], out.query)
    /\ (\/ ~out.options.limit.def
        \/ out.options.limit.v = 0
        \/ out.options.limit.v >= Len(out.texted)) => SameBag(out.notes, out.texted)

\* C3, witness: content search is off and a document that matches only in
\* its content has passed the tag step and is not returned.
C3_Witness ==
  /\ out.op = "search"
  /\ out.query # <<>>
  /\ ~out.options.includeContent
  /\ \E i \in DOMAIN out.tagged :
       /\ ContentOnly(out.tagged[i], out.query)
       /\ out.tagged[i] \notin Range(out.notes)

\* C4: the result is ordered by non-increasing lastModified, and documents
\* with the same lastModified keep their scan order.
C4_Sorted ==
  out.op = "search" =>
    /\ \A i, j \in DOMAIN out.notes :
         i < j => out.notes[i].lastModified >= out.notes[j].lastModified
    /\ \A i \in DOMAIN out.notes :
         IsPrefix(SelectSeq(out.notes, LAMBDA n :
                    n.lastModified = out.notes[i].lastModified),
                  SelectSeq(out.texted, LAMBDA n :
                    n.lastModified = out.notes[i].lastModified))

\* C4, witness: a result with two different documents of the same
\* lastModified, after a document that is newer.
C4_Witness ==
  /\ out.op = "search"
  /\ Len(out.notes) >= 2
  /\ \E i \in DOMAIN out.notes : \E j \in DOMAIN out.notes :
       /\ i < j
       /\ out.notes[i] # out.notes[j]
       /\ out.notes[i].lastModified = out.notes[j].lastModified

\* C5: whenever a limit is supplied (0 included), the result holds at most
\* that many documents: the first ones of the sorted survivors.
C5_Limit ==
  (out.op = "search" /\ out.options.limit.def /\ out.options.limit.v >= 0) =>
    /\ Len(out.notes) <= out.options.limit.v
    /\ IsPrefix(out.notes, sortNotes(out.texted))
    /\ Len(out.notes) = Min({out.options.limit.v, Len(out.texted)})

\* C6: with an empty or absent vault filter every reachable registered
\* vault is scanned: each of its files is among the scanned documents.
C6_EmptyFilter ==
  (out.op = "search" /\ Terms(out.options.vaults) = <<>>) =>
    \A v \in Registered :
      Reachable(v) => DocsUnder(v) \subseteq {DocId(n) : n \in Range(out.allNotes)}

\* C7: with a non-empty vault filter every returned document belongs to a
\* vault named in the filter, and a filter naming no registered vault gives
\* the empty result without an error.
C7_VaultFilter ==
  (out.op = "search" /\ Terms(out.options.vaults) # <<>>) =>
    /\ \A i \in DOMAIN out.notes :
         out.notes[i].vault \in Range(out.options.vaults.v)
    /\ (\A v \in Registered : v.name \notin Range(out.options.vaults.v)) =>
         (out.ok /\ out.notes = <<>>)

\* C7, witness: a filter naming a registered vault returns documents while
\* the primary vault, not named, holds a file.
C7_Witness ==
  /\ out.op = "search"
  /\ Terms(out.options.vaults) # <<>>
  /\ out.notes # <<>>
  /\ fs.up[GhostVaultPath]
  /\ fs.files[GhostVaultPath] # {}

\* the names of the registered vaults with a reachable root
ReachableNames == {v.name : v \in {x \in Registered : Reachable(x)}}

\* the vaults a call goes through
Candidates == IF out.op = "search" THEN Range(VaultsToSearch(out.options))
              ELSE Registered

\* a scanned document carries a tag that names a property of Object.prototype
CarriesProtoKey ==
  \E i \in DOMAIN out.allNotes : Range(out.allNotes[i].tags) \cap ProtoKeys # {}

\* C8: a registered vault whose root is unreachable contributes no document
\* to a search and appears in none of the three outputs of the index; the
\* documents of the reachable vaults are all scanned, and the call fails
\* for no reason that has to do with the unreachable vault.
C8_Unreachable ==
  out.op \in {"search", "index"} =>
    /\ {DocId(n) : n \in Range(out.allNotes)} =
         UNION {DocsUnder(v) : v \in {x \in Candidates : Reachable(x)}}
    /\ out.op = "search" => out.ok
    /\ out.op = "index" => (out.ok <=> ~CarriesProtoKey)
    /\ (out.op = "index" /\ out.ok) =>
         /\ DOMAIN out.vaultStats = ReachableNames
         /\ \A i \in DOMAIN out.recentNotes :
              out.recentNotes[i].vault \in ReachableNames
         /\ \A t \in DOMAIN out.topics :
              Range(out.topics[t].vaults) \subseteq ReachableNames

\* C8, witness: an index built while a registered vault with a file is
\* unreachable and another vault contributes a document.
C8_Witness ==
  /\ out.op = "index"
  /\ out.ok
  /\ out.allNotes # <<>>
  /\ \E v \in Registered :
       /\ ~Reachable(v)
       /\ fs.files[v.path] # {}
       /\ v.name \notin ReachableNames

\* C9: the full list holds the primary vault and every configured external
\* vault, a disabled one with enabled = FALSE; the enabled-only view holds
\* exactly the external vaults that are enabled.
C9_Registry ==
  /\ getAllVaults[1] = ghostVault
  /\ \A i \in DOMAIN env :
       (env[i].name # <<>> /\ env[i].path # "") =>
         \E k \in DOMAIN getAllVaults :
           /\ getAllVaults[k].name = env[i].name
           /\ getAllVaults[k].path = env[i].path
           /\ getAllVaults[k].enabled = (env[i].enabled = "true")
  /\ Range(getExternalVaults) =
       {v \in Range(getAllVaults) : v.type = "external" /\ v.enabled}

\* the tags carried by the scanned documents
CarriedTags == UNION {Range(out.allNotes[i].tags) : i \in DOMAIN out.allNotes}

\* C10: in the index every tag carried by a scanned document has a topic
\* whose count is the number of scanned documents carrying the tag and whose
\* vaults are, without duplicates, the names of the vaults owning such a
\* document; there is no other topic.
C10_Topics ==
  out.op = "index" =>
    /\ out.ok
    /\ DOMAIN out.topics = CarriedTags
    /\ \A t \in CarriedTags :
         /\ out.topics[t].count =
              Cardinality({i \in DOMAIN out.allNotes : t \in Range(out.allNotes[i].tags)})
         /\ Range(out.topics[t].vaults) =
              {out.allNotes[i].vault : i \in {k \in DOMAIN out.allNotes :
                                                t \in Range(out.allNotes[k].tags)}}
         /\ Cardinality(Range(out.topics[t].vaults)) = Len(out.topics[t].vaults)

\* the number of times x occurs in the sequence a
Count(a, x) == Cardinality({i \in DOMAIN a : a[i] = x})

\* C11: recentNotes of the index holds min(20, number of scanned documents)
\* of the scanned documents, ordered by non-increasing lastModified, and no
\* document left out is newer than one that is included.
C11_Recent ==
  (out.op = "index" /\ out.ok) =>
    /\ Len(out.recentNotes) = Min({RecentCap, Len(out.allNotes)})
    /\ \A i, j \in DOMAIN out.recentNotes :
         i < j => out.recentNotes[i].lastModified >= out.recentNotes[j].lastModified
    /\ \A x \in Range(out.recentNotes) :
         Count(out.recentNotes, x) <= Count(out.allNotes, x)
    /\ \A x \in Range(out.allNotes) :
         Count(out.recentNotes, x) < Count(out.allNotes, x) =>
           \A i \in DOMAIN out.recentNotes :
             x.lastModified <= out.recentNotes[i].lastModified

\* C11, witness: more than 20 documents were scanned, and a document that is
\* left out is older than the last one included.
C11_Witness ==
  /\ out.op = "index"
  /\ out.ok
  /\ Len(out.allNotes) > RecentCap
  /\ Len(out.recentNotes) = RecentCap
  /\ \E x \in Range(out.allNotes) :
       /\ x \notin Range(out.recentNotes)
       /\ x.lastModified < out.recentNotes[RecentCap].lastModified

RECURSIVE SizeOfFiles(_)
\* the sum of the sizes of a set of files
SizeOfFiles(F) ==
  IF F = {} THEN 0
  ELSE Len(File(Min(F)).content) + SizeOfFiles(F \ {Min(F)})

\* C12: in the index every reachable registered vault, one that shares its
\* name with another vault included, has its own statistics entry: the
\* number of documents scanned from it and the sum of their sizes.
C12_Stats ==
  (out.op = "index" /\ out.ok) =>
    \A k \in DOMAIN getAllVaults :
      Reachable(getAllVaults[k]) =>
        /\ getAllVaults[k].name \in DOMAIN out.vaultStats
        /\ out.vaultStats[getAllVaults[k].name].noteCount =
             Cardinality(fs.files[getAllVaults[k].path])
        /\ out.vaultStats[getAllVaults[k].name].totalSize =
             SizeOfFiles(fs.files[getAllVaults[k].path])

Expected(v) ==
  {f \in fs.files[v.path] :
     /\ endsWith(File(f).name, DotMd)
     /\ \A i \in DOMAIN File(f).dir : File(f).dir[i] \notin {ObsidianDir, GitDir}}

\* C14: the scan of a vault whose directories can all be opened returns each
\* file whose name ends in .md and that lies below no directory named
\* .obsidian or .git exactly once, and no other file; each one becomes a
\* document.
C14_Scan ==
  (out.op = "read" /\ Reachable(out.vault)) =>
    /\ Range(out.files) = Expected(out.vault)
    /\ Len(out.files) = Cardinality(Expected(out.vault))
    /\ [i \in DOMAIN out.notes |-> out.notes[i].path] =
         [i \in DOMAIN out.files |-> RelPath(File(out.files[i]))]

\* C14, witness: a scan that returns a file below another hidden directory,
\* leaves out a file below .git two levels down and leaves out a file whose
\* name does not end in .md.
C14_Witness ==
  /\ out.op = "read"
  /\ Reachable(out.vault)
  /\ \E f \in Range(out.files) :
       \E i \in DOMAIN File(f).dir : SkipsDotDirs(File(f).dir[i])
  /\ \E f \in fs.files[out.vault.path] \ Range(out.files) :
       Len(File(f).dir) = 2 /\ File(f).dir[2] = GitDir
  /\ \E f \in fs.files[out.vault.path] \ Range(out.files) :
       ~endsWith(File(f).name, DotMd)

\* the files of a vault that the scan returns and that can be read and parsed
Sound(v) == {f \in Expected(v) : ~Fails(v, f)}

RECURSIVE SoundTotal(_)
\* the number of such files in a sequence of vaults
SoundTotal(vaults) ==
  IF vaults = <<>> THEN 0
  ELSE Cardinality(Sound(Head(vaults))) + SoundTotal(Tail(vaults))

\* the vaults a call scans, in order
Scanned ==
  SelectSeq(IF out.op = "search" THEN VaultsToSearch(out.options) ELSE getAllVaults,
            Reachable)

\* C15: a file whose reading or parsing fails is left out alone: a scan
\* returns a document for every other file it found, in the same order, and
\* a search and an index are built from the documents of all other files of
\* the scanned vaults and return normally (the index fails only for a tag
\* that names a property of Object.prototype).
C15_FailingFile ==
  /\ out.op = "read" =>
       /\ out.ok
       /\ [i \in DOMAIN out.notes |-> out.notes[i].path] =
            [i \in DOMAIN SelectSeq(out.files, LAMBDA f : ~Fails(out.vault, f)) |->
               RelPath(File(SelectSeq(out.files, LAMBDA f : ~Fails(out.vault, f))[i]))]
       /\ Len(out.files) = Cardinality(Expected(out.vault) \cap
                                         (IF Reachable(out.vault)
                                          THEN fs.files[out.vault.path] ELSE {}))
  /\ out.op \in {"search", "index"} =>
       /\ out.op = "search" => out.ok
       /\ out.op = "index" => (out.ok <=> ~CarriesProtoKey)
       /\ Len(out.allNotes) = SoundTotal(Scanned)
       /\ {DocId(n) : n \in Range(out.allNotes)} =
            UNION { {[vault |-> Scanned[k].name, path |-> RelPath(File(f))] :
                       f \in Sound(Scanned[k])} : k \in DOMAIN Scanned }
       /\ Null \notin Range(out.allNotes)

\* C15, witness: a search has returned a document of a vault in which
\* another file fails.
C15_Witness ==
  /\ out.op = "search"
  /\ \E k \in DOMAIN Scanned : \E x \in fs.faults :
       /\ x.root = Scanned[k].path
       /\ \E i \in DOMAIN out.notes : out.notes[i].vault = Scanned[k].name
       /\ Sound(Scanned[k]) # {}

\* the lines of a document that start a level-1 heading: a # alone or a #
\* followed by a blank or a tab
HeadingLines(content) ==
  {i \in DOMAIN split(content, "\n") :
     LET line == split(content, "\n")[i]
     IN  /\ Len(line) >= 1 /\ line[1] = "#"
         /\ Len(line) >= 2 => line[2] \in {" ", "\t"}}

\* those of them that carry a text
TextHeadingLines(content) ==
  {i \in HeadingLines(content) : trim(Tail(split(content, "\n")[i])) # <<>>}

HeadingText(content, i) == trim(Tail(split(content, "\n")[i]))

\* the file name without directories and extension, - and _ made blanks
NameTitle(path) ==
  LET slashes == {i \in DOMAIN path : path[i] = "/"}
      name == SubSeq(path, IF slashes = {} THEN 1 ELSE Max(slashes) + 1, Len(path) - 3)
  IN  [i \in DOMAIN name |-> IF name[i] \in {"-", "_"} THEN " " ELSE name[i]]

\* The titles the statement admits: the trimmed text of the first level-1
\* heading line (whether or not a heading without text counts as one), or,
\* without a level-1 heading, the title made of the file name.
AdmittedTitles(content, path) ==
  IF HeadingLines(content) = {} THEN {NameTitle(path)}
  ELSE {HeadingText(content, Min(HeadingLines(content)))} \cup
       (IF TextHeadingLines(content) = {} THEN {NameTitle(path)}
        ELSE {HeadingText(content, Min(TextHeadingLines(content)))})

\* C16: the title of a parsed document is the trimmed text of its first
\* level-1 heading line, and without a level-1 heading the file name without
\* directories and .md, each - and _ replaced by a blank, case preserved.
C16_Title ==
  out.op = "note" => out.title \in AdmittedTitles(out.content, out.path)

\* C17: a document whose only tag source is the front-matter line
\* tags: ["a","b"] and a document whose only tag source is the inline text
\* #a #b both have exactly the tags a and b.
C17_RoundTrip ==
  (out.op = "note" /\ out.content \in FrontmatterDocuments \cup InlineDocuments) =>
    Range(out.tags) = {<<"a">>, <<"b">>}

\* the file system was changed in a vault that the search goes through
Changed(kind) ==
  /\ out.op = "search" /\ out.calls = 2
  /\ fs.last.kind = kind
  /\ \E v \in Range(Scanned) : v.path = fs.last.root

\* the vault of the change and the document of the changed file
ChangedVault == CHOOSE v \in Range(Scanned) : v.path = fs.last.root
ChangedNote == [vault |-> ChangedVault.name] @@ ParsedCatalog[fs.last.file]

\* the document passes the filters of the query
Matches(note) ==
  /\ Terms(out.options.tags) # <<>> => PassesTags(note, Terms(out.options.tags))
  /\ out.query # <<>> => PassesText(note, out.query, out.options.includeContent)

\* the scanned documents are those of the files as they are now
ScanIsCurrent ==
  /\ Len(out.allNotes) = SoundTotal(Scanned)
  /\ Range(out.allNotes) =
       UNION { {[vault |-> Scanned[k].name] @@ ParsedCatalog[f] : f \in Sound(Scanned[k])} :
                 k \in DOMAIN Scanned }

\* C18 as stated: the second of two searches with the same query holds a
\* matching file created between them, does not hold a file deleted between
\* them, and holds a file modified between them with its new content, tags
\* and time.
C18_Original ==
  /\ Changed("create") => (Matches(ChangedNote) => ChangedNote \in Range(out.notes))
  /\ Changed("delete") =>
       \A n \in Range(out.notes) : DocId(n) # DocId(ChangedNote)
  /\ Changed("modify") =>
       \A n \in Range(out.notes) : DocId(n) = DocId(ChangedNote) => n = ChangedNote

\* C18 as amended: the second search scans the files as they are now and
\* keeps nothing of the first one; a matching file created between them
\* passes the filters, and is in the result whenever the limit does not cut
\* the result; a deleted file is not in the result; a modified file is
\* filtered and returned with its new content, tags and time.
C18_Rescan ==
  /\ (out.op = "search" /\ out.calls = 2) => ScanIsCurrent
  /\ Changed("create") =>
       (Matches(ChangedNote) =>
          /\ ChangedNote \in Range(out.texted)
          /\ (\/ ~out.options.limit.def
              \/ out.options.limit.v = 0
              \/ out.options.limit.v >= Len(out.texted)) =>
               ChangedNote \in Range(out.notes))
  /\ Changed("delete") =>
       \A n \in Range(out.notes) : DocId(n) # DocId(ChangedNote)
  /\ Changed("modify") =>
       /\ Matches(ChangedNote) <=> ChangedNote \in Range(out.texted)
       /\ \A n \in Range(out.notes) : DocId(n) = DocId(ChangedNote) => n = ChangedNote

\* C18, witness: the second search returns a file that was modified after
\* the first one, with the tag that was added to it.
C18_Witness ==
  /\ Changed("modify")
  /\ ChangedNote \in Range(out.notes)
  /\ <<"n", "e", "w">> \in Range(ChangedNote.tags)
  /\ ChangedNote.lastModified = 3

\* the documents of the index document among the scanned notes
IndexDocs(notes) == {i \in DOMAIN notes : notes[i].path = IndexName}

\* the recent-activity list: the vault and the title of each note
Activity(notes) ==
  [i \in DOMAIN notes |-> [vault |-> notes[i].vault, title |-> notes[i].title]]

\* C19: when the index command is run again on vaults that are otherwise
\* unchanged and the run before already scanned the index document, the
\* run scans exactly one index document and yields the same topics and the
\* same recent-activity list as the run before.
C19_Idempotent ==
  [][(/\ out.op = "index" /\ out.ok
      /\ out'.op = "index" /\ out'.ok
      /\ IndexDocs(out.allNotes) # {}) =>
       /\ Cardinality(IndexDocs(out'.allNotes)) = 1
       /\ out'.topics = out.topics
       /\ Activity(out'.recentNotes) = Activity(out.recentNotes)]_vars

\* the entries VAULT_i of the environment with a name, a path and
\* ENABLED=true
Configured == {i \in DOMAIN env : /\ env[i].name # <<>>
                                  /\ env[i].path # ""
                                  /\ env[i].enabled = "true"}

\* the entry VAULT_i is among the registered external vaults
IsRegistered(i) ==
  \E k \in DOMAIN externalVaults :
     /\ externalVaults[k].name = env[i].name
     /\ externalVaults[k].path = env[i].path

\* every markdown file under the path of the entry VAULT_i is among the
\* notes that the call scanned
IsScanned(i) ==
  \A f \in Expected(env[i]) :
     \E k \in DOMAIN out.allNotes :
        /\ out.allNotes[k].vault = env[i].name
        /\ out.allNotes[k].path = RelPath(File(f))

\* C20: every configured entry VAULT_i (name, path, ENABLED=true), whatever
\* its index i and whatever gaps the numbering has, is registered, and a
\* search or an index that succeeded has scanned the files of every such
\* entry whose path is reachable.
C20_AnyIndex ==
  \A i \in Configured :
     /\ IsRegistered(i)
     /\ (out.op \in {"search", "index"} /\ out.ok /\ fs.up[env[i].path])
          => IsScanned(i)

\* the text of a document after its front-matter block
BodyAfter(content, qs) ==
  IF qs = {} THEN content
  ELSE SubSeq(content, Min(qs) + Len(FrontmatterClose), Len(content))

BodyOf(content) ==
  IF ~MatchAt(content, 1, FrontmatterOpen) THEN content
  ELSE BodyAfter(content,
         {q \in 5..Len(content) : MatchAt(content, q, FrontmatterClose)})

\* C21: with content search enabled, every document a text search returns
\* has the query text in its title or in its body; a document that has it
\* only inside its front-matter block is not returned.
C21_BodyOnly ==
  (out.op = "search" /\ out.query # <<>> /\ out.options.includeContent) =>
    \A k \in DOMAIN out.notes :
       \/ includes(toLowerCase(out.notes[k].title), toLowerCase(out.query))
       \/ includes(toLowerCase(BodyOf(out.notes[k].content)), toLowerCase(out.query))

\* the markdown files of a vault that lie in no directory that cannot be
\* opened, nor below one
Openable(v) ==
  {f \in Expected(v) :
     \A x \in fs.closed : ~(x.root = v.path /\ IsPrefix(x.dir, File(f).dir))}

\* the paths of the notes returned for a vault
PathsOf(notes, v) == {n.path : n \in {m \in Range(notes) : m.vault = v.name}}

\* C22: when a directory cannot be opened (a root after its check
\* succeeded included), the scan returns exactly the markdown files outside
\* the subtree of that directory, and search and the index return normally
\* with the notes of exactly those files.
C22_ClosedDir ==
  /\ out.op = "read" /\ fs.up[out.vault.path] =>
       /\ out.ok
       /\ Range(out.files) = Openable(out.vault)
       /\ Len(out.files) = Cardinality(Openable(out.vault))
  /\ out.op \in {"search", "index"} =>
       /\ out.ok
       /\ \A k \in DOMAIN getAllVaults :
            PathsOf(out.allNotes, getAllVaults[k]) =
              UNION {{RelPath(File(f)) : f \in Openable(w)} :
                       w \in {x \in Range(getAllVaults) : x.name = getAllVaults[k].name}}

\* C22, witness: a scan returned the file of a directory and the file of
\* the root although the directory next to the first one, with a file in
\* it, could not be opened.
C22_Witness ==
  /\ out.op = "read"
  /\ fs.closed = {[root |-> out.vault.path, dir |-> <<Sub>>]}
  /\ Len(out.files) = 1
  /\ File(out.files[1]).dir # <<>>
  /\ Cardinality(fs.files[out.vault.path]) = 2

\* the lines between a first line that is the delimiter and the first later
\* line that is the delimiter; ends: the later lines that are the delimiter
LinesBetween(lines, ends) ==
  IF lines[1] = Delimiter /\ ends # {} THEN SubSeq(lines, 2, Min(ends) - 1)
  ELSE <<>>

BlockLines(lines) ==
  LinesBetween(lines, {j \in 2..Len(lines) : lines[j] = Delimiter})

\* the key and the value of a well-formed line, assigned to the map
PairSet(fm, kv) ==
  IF kv = <<>> THEN fm
  ELSE [k \in DOMAIN fm \cup {kv[1]} |->
          IF k = kv[1] THEN FrontmatterValue(kv[2]) ELSE fm[k]]

RECURSIVE PairsOf(_, _)
\* the pairs of the well-formed lines among lines
PairsOf(lines, fm) ==
  IF lines = <<>> THEN fm
  ELSE PairsOf(Tail(lines), PairSet(fm, FrontmatterLine(Head(lines))))

\* C23: the front-matter map of a parsed document holds exactly the pairs
\* of the well-formed lines of the block between a delimiter line that is
\* the first line of the content and the next delimiter line; malformed
\* lines are skipped, later blocks add nothing, and a document that does
\* not begin with a delimiter line has an empty map.
C23_FirstBlock ==
  out.op = "note" =>
    out.frontmatter = PairsOf(BlockLines(split(out.content, "\n")), EmptyMap)

\* what a call returns when it runs alone
Alone(call) ==
  IF call.kind = "index" THEN generateCrossVaultIndex
  ELSE searchAllVaults(call.query, call.options)

\* C24: calls of search and of the index that are interleaved over an
\* unchanged file system each return what they return when run alone; the
\* registry's list of vaults is the one loaded from the configuration
\* before, during and after the calls, and no step of a call changes a file.
C24_NoSharedState ==
  /\ [](/\ externalVaults = loadExternalVaults(env)
        /\ out.op = "calls" =>
             \A i \in 1..2 : out.calls[i].done =>
                out.calls[i].result = Alone(out.calls[i]))
  /\ [][out'.op = "calls" => (fs' = fs /\ externalVaults' = externalVaults)]_vars

\* C24, witness: two calls have finished whose turns alternated, one of
\* them the index, over vaults that hold two notes, and the search returned
\* one of them.
C24_Witness ==
  /\ out.op = "calls"
  /\ out.calls[1].done /\ out.calls[2].done
  /\ out.calls[1].kind = "tagged" /\ out.calls[2].kind = "index"
  /\ Len(out.calls[2].allNotes) = 2
  /\ Len(out.calls[1].result.notes) = 1

\* C25: after an answer 429 with a retry-after header, or 401, the error
\* a method of the client raises carries the status, the retry time and
\* the mapped message, and the command's error handler takes its
\* rate-limit branch, or its invalid-API-key branch.
C25_MappedError ==
  (out.op = "client" /\ out.stage \in {"thrown", "exit"}) =>
    /\ (out.response.status = 429 /\ out.response.retryAfter.def) =>
         /\ out.error.status = Some(429)
         /\ out.error.retryAfter = Some(parseInt(out.response.retryAfter.v))
         /\ out.error.message = RateLimitMessage(out.error.retryAfter)
         /\ (out.stage = "exit" /\ TruthyNum(parseInt(out.response.retryAfter.v)))
              => out.branch = "rate limit"
    /\ out.response.status = 401 =>
         /\ out.error.status = Some(401)
         /\ out.error.message = <<"Invalid API key. Please check your credentials.">>
         /\ out.stage = "exit" => out.branch = "invalid API key"

RECURSIVE Flatten(_)
\* the items of the pages, page after page
Flatten(pages) ==
  IF pages = <<>> THEN <<>> ELSE Head(pages).items \o Flatten(Tail(pages))

\* the paginated fetch, while it runs and after it
PagesSafe ==
  out.op = "pages" =>
    /\ \A k \in DOMAIN out.requests :
         /\ out.requests[k].limit <= PageCap
         /\ out.requests[k].limit <=
              out.maxResults - Len(Flatten(SubSeq(out.pages, 1, k - 1)))
         /\ out.requests[k].cursor =
              IF k = 1 THEN NoNumber ELSE out.pages[k - 1].next
    /\ \A k \in 1..(Len(out.requests) - 1) :
         /\ out.pages[k].items # <<>>
         /\ out.pages[k].next.def
         /\ Len(Flatten(SubSeq(out.pages, 1, k))) < out.maxResults
    /\ Len(out.allLifelogs) <= out.maxResults
    /\ out.allLifelogs = Flatten(out.pages)

\* C26: getAllLifelogs ends for every server that sends at most the
\* requested number of items per page; it stops at the first page that is
\* empty or has no next cursor or when maxResults items are there, asks
\* for at most 10 items and never for more than are missing, passes each
\* next cursor on, and returns at most maxResults lifelogs in page order.
C26_Pagination ==
  /\ []PagesSafe
  /\ (out.op = "pages" /\ ~out.done) ~> (out.op = "pages" /\ out.done)

\* C26, witness: a fetch of the largest maxResults has ended after a full
\* page of ten with a cursor and a second page of what was still missing.
C26_Witness ==
  /\ out.op = "pages" /\ out.done /\ out.ok
  /\ out.maxResults = MaxResults
  /\ Len(out.requests) = 2
  /\ out.requests[1].limit = PageCap
  /\ out.requests[2].limit = MaxResults - PageCap
  /\ out.requests[2].cursor = Some(1)
  /\ Len(out.allLifelogs) = MaxResults

\* C27: the outputs of one call of the index describe one snapshot, also
\* when files change while the call runs: the statistics have an entry for
\* a vault exactly when the vault was included in the loop that fills the
\* topics and the recent notes, and the entry's count is the number of
\* notes of that vault counted for the topics.
C27_OneSnapshot ==
  (out.op = "index" /\ out.ok) =>
    /\ DOMAIN out.vaultStats = out.included
    /\ \A name \in DOMAIN out.vaultStats :
         out.vaultStats[name].noteCount =
           Cardinality({k \in DOMAIN out.allNotes : out.allNotes[k].vault = name})

\* C28: the index returns normally whatever tags the notes carry, a tag
\* that names a property every plain object has included, and every tag
\* of a scanned note has a topic whose count is a number of at least one.
C28_AnyTag ==
  out.op = "index" =>
    /\ out.ok
    /\ \A i \in DOMAIN out.allNotes : \A t \in Range(out.allNotes[i].tags) :
         /\ t \in DOMAIN out.topics
         /\ out.topics[t].count \in Nat \ {0}

\* the tags listed in the tags line of the note written for a lifelog
ListedTags(lifelog) ==
  {<<"r","e","c","o","r","d","i","n","g">>}
    \cup Range(extractTopics(lifelog))
    \cup (IF lifelog.isStarred THEN {<<"s","t","a","r","r","e","d">>} ELSE {})

\* the tags the parser finds in a text
ParsedTags(content) == Range(extractTags(content, extractFrontmatter(content)))

\* C29: the parsed tags of every recording note the import has written
\* contain each tag of the note's front-matter tags line as a tag of its
\* own: recording, every extracted topic, and starred for a starred one.
C29_RoundTrip ==
  \A name \in DOMAIN fs.rec.files :
     ListedTags(fs.rec.files[name].of) \subseteq ParsedTags(fs.rec.files[name].content)

\* the i-th of the positions 1..n that are not among failing
NthKept(failing, n, i) ==
  CHOOSE k \in 1..n :
    k \notin failing /\ Cardinality({j \in 1..k : j \notin failing}) = i

\* C30: all the writes of one lifelog went to one file name, which is in the
\* directory, so that importing a lifelog again adds no file; an import
\* returns the paths of exactly the lifelogs whose write did not fail, in
\* their order, and has written each of them.
C30_Idempotent ==
  /\ \A p \in fs.rec.written : p[2] \in DOMAIN fs.rec.files
  /\ \A p, q \in fs.rec.written : p[1] = q[1] => p[2] = q[2]
  /\ out.op = "import" =>
       /\ out.importedFiles =
            [i \in 1..(Len(out.lifelogs) - Cardinality(out.failing)) |->
               RecordingsPath \o <<"/">> \o generateObsidianFilename(
                 out.lifelogs[NthKept(out.failing, Len(out.lifelogs), i)])]
       /\ DOMAIN fs.rec.files =
            out.before \cup {generateObsidianFilename(out.lifelogs[k]) :
                               k \in DOMAIN out.lifelogs \ out.failing}

====
